---- MODULE Spec2Model ----
(***************************************************************************)
(* ccflare request pipeline: one proxied request walking the candidate     *)
(* accounts (proxy-operations), the response classifier                    *)
(* (response-processor) and the operations it puts on the async writer.    *)
(***************************************************************************)
EXTENDS Integers, Sequences, FiniteSets, TLC

\* ------------------------------------------------------------------ bounds
NumAccounts == 2
MaxTime == 3
NumCallers == 3
MaxFlows == 2
MaxRemovals == 2
MaxWizards == 2
MaxWizardCalls == 2
MaxSaves == 1
MaxToggles == 3

\* ----------------------------------------------------------- value domains
\* A nullable value (T | null | undefined) is the empty set or a singleton.
None == {}
Some(x) == {x}
Option(S) == {None} \cup {Some(x) : x \in S}
TheValue(opt) == CHOOSE x \in opt : TRUE

\* JavaScript truthiness of a nullable number: null, undefined and 0 are falsy.
TruthyNum(opt) == opt # None /\ opt # Some(0)
\* JavaScript truthiness of a header string: headers.get gives null when the
\* header is absent; null and "" are both falsy.  "" stands for both.
NoHeader == ""
TruthyStr(s) == s # NoHeader

AccountNames == <<"A", "B", "C", "D", "E">>
Accounts == {AccountNames[i] : i \in 1..NumAccounts}
NoAccount == "null"

RequestIds == {"req-1"}
Statuses == {200, 429, 500, 529}
StatusTags == {"allowed", "rate_limited"}
HardLimitTags == {"rate_limited"}
ResetTimes == {1, 2}
Tiers == {1, 5, 20}

\* The tier each account row carries when the request reads it.
AccountTier(a) ==
    IF a = "A" THEN 1 ELSE IF a = "B" THEN 5 ELSE 20

\* An upstream response: status, whether Content-Type is text/event-stream,
\* and the provider's rate-limit headers.  The remaining-count header is
\* carried through to the meta update unread; it is left absent here.
Responses ==
    [status : Statuses,
     isStream : BOOLEAN,
     statusHeader : {NoHeader} \cup StatusTags,
     resetHeader : Option(ResetTimes),
     remainingHeader : {None}]

\* The ordered candidate lists a select can give: the accounts are
\* interchangeable, so the lists are the prefixes of one order.
CandidateLists ==
    {[i \in 1..k |-> AccountNames[i]] : k \in 0..NumAccounts}

Last(s) == s[Len(s)]
Range(s) == {s[i] : i \in 1..Len(s)}

\* Credentials of the account rows: accounts alternate between oauth rows (an
\* access token, no api key) and api_key rows (an api key, no access token).
ApiKeyAccounts == {AccountNames[i] : i \in {2, 4}}
AccountApiKey(a) ==
    IF a \in ApiKeyAccounts THEN Some([kind |-> "api_key", of |-> a]) ELSE None
AccountAccessToken(a) ==
    IF a \in ApiKeyAccounts THEN None
    ELSE Some([kind |-> "access_token", of |-> a])

\* JavaScript truthiness of a nullable credential.
TruthyCred(opt) == opt # None

\* The credential headers the client itself sent.
ClientHeaders ==
    [authorization |-> Some([kind |-> "client", of |-> NoAccount]),
     xApiKey |-> None]
NoCredentials == [authorization |-> None, xApiKey |-> None]

\* The token manager's answer for an account: the api key itself when the row
\* has one, otherwise the row's (fresh or refreshed) access token.
getValidAccessToken(a) ==
    IF TruthyCred(AccountApiKey(a)) THEN AccountApiKey(a)
    ELSE AccountAccessToken(a)

\* The provider's prepareHeaders, reduced to the credential headers: the
\* incoming authorization and x-api-key are dropped; an api key becomes
\* x-api-key, otherwise an access token becomes a Bearer authorization.
prepareHeaders(incoming, accessToken, apiKey) ==
    IF TruthyCred(apiKey)
    THEN [authorization |-> None, xApiKey |-> apiKey]
    ELSE IF TruthyCred(accessToken)
    THEN [authorization |-> accessToken, xApiKey |-> None]
    ELSE NoCredentials

\* ------------------------------------------------------------ the provider
\* provider.isStreamingResponse: Content-Type starts with text/event-stream.
isStreamingResponse(response) == response.isStream

\* provider.parseRateLimit: the headers as a structured signal.
parseRateLimit(response) ==
    [isRateLimited |-> response.status = 429
                       \/ response.statusHeader \in HardLimitTags,
     resetTime |-> response.resetHeader,
     statusHeader |-> response.statusHeader,
     remaining |-> response.remainingHeader]

\* ------------------------------------------- operations on the async writer
MarkOp(a, resetTime) ==
    [op |-> "markAccountRateLimited", account |-> a, status |-> NoHeader,
     resetTime |-> resetTime, remaining |-> None, tier |-> None]
UsageOp(a) ==
    [op |-> "updateAccountUsage", account |-> a, status |-> NoHeader,
     resetTime |-> None, remaining |-> None, tier |-> None]
MetaOp(a, status, resetTime, remaining) ==
    [op |-> "updateAccountRateLimitMeta", account |-> a, status |-> status,
     resetTime |-> resetTime, remaining |-> remaining, tier |-> None]
TierOp(a, tier) ==
    [op |-> "updateAccountTier", account |-> a, status |-> NoHeader,
     resetTime |-> None, remaining |-> None, tier |-> tier]

\* ------------------------------------------------------- the account store
\* Instants of the clock; reset times are instants.
Instants == 0..MaxTime

\* An account row, reduced to the fields the classifier's writes and the
\* balancer's filter touch.
NewRow(a, paused) ==
    [paused |-> paused, rate_limit_status |-> NoHeader,
     rate_limit_reset_at |-> None, rate_limit_remaining |-> None,
     request_count |-> 0, tier |-> AccountTier(a)]

\* One queued operation applied to the store by the async writer.
ApplyOp(st, o) ==
    LET row == st[o.account]
    IN  [st EXCEPT ![o.account] =
          CASE o.op = "markAccountRateLimited" ->
                 [row EXCEPT !.rate_limit_reset_at = o.resetTime]
            [] o.op = "updateAccountUsage" ->
                 [row EXCEPT !.request_count = row.request_count + 1]
            [] o.op = "updateAccountRateLimitMeta" ->
                 [row EXCEPT !.rate_limit_status = o.status,
                             !.rate_limit_reset_at = o.resetTime,
                             !.rate_limit_remaining = o.remaining]
            [] o.op = "updateAccountTier" ->
                 [row EXCEPT !.tier = TheValue(o.tier)]]

RECURSIVE ApplyAll(_, _)
ApplyAll(st, ops) ==
    IF ops = <<>> THEN st ELSE ApplyAll(ApplyOp(st, Head(ops)), Tail(ops))

\* The balancer's eligibility filter at instant t: paused rows and rows whose
\* rate_limit_reset_at lies in the future are dropped.  (The order among the
\* eligible rows is the list order; stickiness and weights are left out.)
InFuture(opt, t) == opt # None /\ TheValue(opt) > t
Eligible(st, t) ==
    {a \in DOMAIN st :
        ~st[a].paused /\ ~InFuture(st[a].rate_limit_reset_at, t)}
select(st, t) ==
    SelectSeq(SubSeq(AccountNames, 1, NumAccounts),
              LAMBDA a : a \in Eligible(st, t))

\* The filter's lazy clearing of reset times that have passed.
ClearExpired(st, t) ==
    [a \in DOMAIN st |->
        IF st[a].rate_limit_reset_at # None
           /\ ~InFuture(st[a].rate_limit_reset_at, t)
        THEN [st[a] EXCEPT !.rate_limit_reset_at = None]
        ELSE st[a]]

\* -------------------------------------------------------- response-processor
\* Faulty variant: 429 counted among the successful statuses.
SUCCESS_STATUS_CODES_With429 == {200, 429}

SUCCESS_STATUS_CODES == {200}

\* Faulty variant: the mark carries the remaining count in place of the reset time.
handleRateLimitResponse_MarksRemaining(account, rateLimitInfo) ==
    IF ~TruthyNum(rateLimitInfo.resetTime)
    THEN <<>>
    ELSE <<MarkOp(account, rateLimitInfo.remaining)>>

\* Faulty variant: the rate-limited account is logged but never marked.
handleRateLimitResponse_LogsOnly(account, rateLimitInfo) == <<>>

\* handleRateLimitResponse: the operations it enqueues.
handleRateLimitResponse(account, rateLimitInfo) ==
    IF ~TruthyNum(rateLimitInfo.resetTime)
    THEN <<>>
    ELSE <<MarkOp(account, rateLimitInfo.resetTime)>>

\* Faulty variant: a non-success response still counts as usage of the account.
handleNonSuccessResponse_CountsUsage(account, response) ==
    <<UsageOp(account)>>

\* handleNonSuccessResponse: logs only.
handleNonSuccessResponse(account, response) == <<>>

\* Faulty variant: the meta update is enqueued without looking at the status header.
updateAccountMetadata_AlwaysMeta(account, response) ==
    LET rateLimitInfo == parseRateLimit(response)
    IN  <<UsageOp(account),
          MetaOp(account, rateLimitInfo.statusHeader,
                 rateLimitInfo.resetTime, rateLimitInfo.remaining)>>

\* updateAccountMetadata: the operations it enqueues synchronously (the tier
\* extraction it starts finishes later, see ExtractTierDone).
updateAccountMetadata(account, response) ==
    LET rateLimitInfo == parseRateLimit(response)
    IN  <<UsageOp(account)>> \o
        (IF TruthyStr(rateLimitInfo.statusHeader)
         THEN <<MetaOp(account, rateLimitInfo.statusHeader,
                       rateLimitInfo.resetTime, rateLimitInfo.remaining)>>
         ELSE <<>>)

\* Faulty variant: on a rate-limited response the metadata is updated before
\* the account is marked.
processProxyResponse_MetadataFirst(response, account) ==
    LET isStream == isStreamingResponse(response)
        rateLimitInfo == parseRateLimit(response)
    IN  IF ~isStream /\ rateLimitInfo.isRateLimited
           /\ TruthyNum(rateLimitInfo.resetTime)
        THEN [failover |-> TRUE,
              ops |-> updateAccountMetadata(account, response)
                      \o handleRateLimitResponse(account, rateLimitInfo),
              metadata |-> TRUE]
        ELSE IF response.status \notin SUCCESS_STATUS_CODES
        THEN [failover |-> TRUE,
              ops |-> handleNonSuccessResponse(account, response),
              metadata |-> FALSE]
        ELSE [failover |-> FALSE,
              ops |-> updateAccountMetadata(account, response),
              metadata |-> TRUE]

\* processProxyResponse: the failover decision, the operations enqueued in
\* order, and whether updateAccountMetadata ran.
processProxyResponse(response, account) ==
    LET isStream == isStreamingResponse(response)
        rateLimitInfo == parseRateLimit(response)
    IN  IF ~isStream /\ rateLimitInfo.isRateLimited
           /\ TruthyNum(rateLimitInfo.resetTime)
        THEN [failover |-> TRUE,
              ops |-> handleRateLimitResponse(account, rateLimitInfo)
                      \o updateAccountMetadata(account, response),
              metadata |-> TRUE]
        ELSE IF response.status \notin SUCCESS_STATUS_CODES
        THEN [failover |-> TRUE,
              ops |-> handleNonSuccessResponse(account, response),
              metadata |-> FALSE]
        ELSE [failover |-> FALSE,
              ops |-> updateAccountMetadata(account, response),
              metadata |-> TRUE]

\* Faulty variant: whatever the extraction yields is enqueued.
tierUpdate_Unchecked(currentTier, tier) == tier

\* The detached block of updateAccountMetadata once extractTierInfo resolved:
\* the tier to enqueue, if any (a tier that is set and differs from the
\* account's).
tierUpdate(currentTier, tier) ==
    IF TruthyNum(tier) /\ tier # Some(currentTier) THEN tier ELSE None

\* ------------------------------------------------------------------- state
VARIABLES
    requestMeta,       \* RequestMeta of the request being served
    candidates,        \* ordered accounts the balancer returned
    hasExtractTierInfo,\* whether the provider implements extractTierInfo
    pc,                \* what the request's task is waiting for
    failoverAttempts,  \* index of the attempt in progress
    response,          \* upstream response of the latest attempt, if any
    queue,             \* async writer queue, in enqueue order
    tierPending,       \* accounts with a tier extraction still running
    upstreamCalls,     \* accounts of the upstream calls issued, in order
    upstreamHeaders,   \* credential headers of those calls, in the same order
    attempts,          \* outcome of each finished attempt, in order
    forwarded,         \* forwardToClient calls, in order
    clientResponse,    \* what the request's task resolved to, if a response
    thrown,            \* the error the request's task rejected with, if any
    store,             \* the account rows, by account
    now,               \* the clock
    selected,          \* the list a select has just returned, if any
    tokenRow,          \* the oauth account's access token and whether it expired
    callers,           \* each attempt calling the token manager: where it is
    refreshInFlight,   \* refresh calls to the token endpoint now in flight
    refreshCalls,      \* refresh calls made so far
    accounts,          \* the accounts table, in insertion order
    flows,             \* flow data returned by begin and held by its caller
    sessions,          \* session ids handed out so far
    flowResult,        \* how the latest begin or complete call ended
    listed,            \* names of the accounts the dashboard lists
    confirmDelete,     \* AccountsTab's confirmDelete state
    actionError,       \* AccountsTab's actionError state
    removeCalls,       \* api.removeAccount calls made, in order
    removeInFlight,    \* the calls among them that have not settled yet
    adding,            \* AccountsTab's adding state: the wizard is mounted
    instance,          \* number of wizard instances mounted so far
    authStep,          \* AccountAddForm's authStep state
    authCode,          \* AccountAddForm's authCode state
    apiKeyInput,       \* AccountAddForm's apiKey state
    sessionId,         \* AccountAddForm's sessionId state
    newAccount,        \* AccountAddForm's newAccount state
    initCalls,         \* api.initAddAccount calls made, in order
    completeCalls,     \* api.completeAddAccount calls made, in order
    directCalls,       \* api.addDirectAccount calls made, in order
    wizardInFlight,    \* the wizard's calls that have not settled yet
    issued,            \* account names of the sessions the server issued
    lastInit,          \* session the instance's latest successful init returned
    skippedOAuth,      \* the instance took the base-URL branch to the key step
    onSuccessCalls,    \* the account-creating calls after which onSuccess ran
    serverAccount,     \* the account as the server holds it
    loadedAccount,     \* the account as the dashboard's list last loaded it
    editDialog,        \* AccountsTab's editDialog state
    formData,          \* AccountEditDialog's formData state
    errors,            \* AccountEditDialog's errors state: the fields in error
    saveTasks,         \* handleSaveEdit calls: their updates and where they are
    editCalls,         \* API calls made by handleSaveEdit, in order
    pauseTasks,        \* handlePauseToggle calls: what they issue, where they are
    pauseCalls         \* pause / resume calls made by handlePauseToggle, in order

pipelineVars ==
    <<requestMeta, candidates, hasExtractTierInfo, pc, failoverAttempts,
      response, queue, tierPending, upstreamCalls, upstreamHeaders, attempts,
      forwarded, clientResponse, thrown>>

storeVars == <<store, now, selected>>

tokenVars == <<tokenRow, callers, refreshInFlight, refreshCalls>>

oauthVars == <<accounts, flows, sessions, flowResult>>

deleteVars == <<listed, confirmDelete, actionError, removeCalls, removeInFlight>>

wizardVars ==
    <<adding, instance, authStep, authCode, apiKeyInput, sessionId, newAccount,
      initCalls, completeCalls, directCalls, wizardInFlight, issued, lastInit,
      skippedOAuth, onSuccessCalls>>

accountVars == <<serverAccount, loadedAccount>>
editVars == <<editDialog, formData, errors, saveTasks, editCalls>>
pauseVars == <<pauseTasks, pauseCalls>>
manageVars == <<accountVars, editVars, pauseVars>>

uiVars == <<deleteVars, wizardVars, manageVars>>

otherVars == <<storeVars, tokenVars, oauthVars, uiVars>>

vars == <<pipelineVars, otherVars>>

account == candidates[failoverAttempts + 1]

\* The store as the request pipeline leaves it: rows untouched, clock at rest.
StoreIdle ==
    /\ store = [a \in Accounts |-> NewRow(a, FALSE)]
    /\ now = 0
    /\ selected = None

\* The token manager at rest: a fresh token, nobody calling.
Callers == 1..NumCallers
TokenIdle ==
    /\ tokenRow = [access_token |-> 0, expired |-> FALSE]
    /\ callers = [c \in Callers |-> [pc |-> "idle", flight |-> 0, token |-> None]]
    /\ refreshInFlight = {}
    /\ refreshCalls = 0

\* Provisioning at rest: no account row, no flow begun.
OAuthIdle ==
    /\ accounts = <<>>
    /\ flows = {}
    /\ sessions = 0
    /\ flowResult = None

\* The dashboard with no dialog open and nothing under way.
DeleteIdle ==
    /\ listed = {}
    /\ confirmDelete = [show |-> FALSE, accountName |-> "", confirmInput |-> ""]
    /\ actionError = None
    /\ removeCalls = <<>>
    /\ removeInFlight = {}

\* Sessions are numbered from 1; 0 stands for the empty sessionId.
NoSession == 0

\* AccountAddForm's initial useState values.
BlankAccount == [name |-> "", mode |-> "max", tier |-> 1, baseUrl |-> ""]
BlankForm ==
    /\ authStep = "form"
    /\ authCode = ""
    /\ apiKeyInput = ""
    /\ sessionId = NoSession
    /\ newAccount = BlankAccount

\* No wizard is mounted and none has made a call.
WizardIdle ==
    /\ adding = FALSE
    /\ instance = 0
    /\ BlankForm
    /\ initCalls = <<>>
    /\ completeCalls = <<>>
    /\ directCalls = <<>>
    /\ wizardInFlight = {}
    /\ issued = <<>>
    /\ lastInit = NoSession
    /\ skippedOAuth = FALSE
    /\ onSuccessCalls = {}

\* The account the edit dialog and the pause toggle work on, as the server
\* stores it and as the list shows it.
NameA == <<"a">>
NameB == <<"b">>
ServerAccounts ==
    [name : {NameA}, tier : {1}, paused : BOOLEAN, rateLimitOverride : {None}]
ListedAccount(row) ==
    [name |-> row.name, tier |-> row.tier, paused |-> row.paused]

\* AccountsTab's initial editDialog state, and the form of a dialog that is
\* not mounted.
NoEditDialog == [isOpen |-> FALSE, account |-> None, isLoading |-> FALSE]
MaxNameLength == 100
MaxCustomLimit == 100000
MaxResetWindow == 1440
DefaultCustomLimit == 1000
DefaultResetWindow == 60
NoFormData ==
    [name |-> <<>>, tier |-> 1, paused |-> FALSE,
     rateLimitOverrideEnabled |-> FALSE, customLimit |-> DefaultCustomLimit,
     resetWindowMinutes |-> DefaultResetWindow]

\* The account is listed as stored; nothing is being edited or toggled.
ManageIdle ==
    /\ serverAccount = [name |-> NameA, tier |-> 1, paused |-> FALSE,
                         rateLimitOverride |-> None]
    /\ loadedAccount = ListedAccount(serverAccount)
    /\ editDialog = NoEditDialog
    /\ formData = NoFormData
    /\ errors = {}
    /\ saveTasks = <<>>
    /\ editCalls = <<>>
    /\ pauseTasks = <<>>
    /\ pauseCalls = <<>>

UiIdle == DeleteIdle /\ WizardIdle /\ ManageIdle

Init ==
    /\ StoreIdle
    /\ TokenIdle
    /\ OAuthIdle
    /\ UiIdle
    /\ requestMeta \in [id : RequestIds]
    /\ candidates \in CandidateLists
    /\ hasExtractTierInfo \in BOOLEAN
    /\ pc = "select"
    /\ failoverAttempts = 0
    /\ response = None
    /\ queue = <<>>
    /\ tierPending = {}
    /\ upstreamCalls = <<>>
    /\ upstreamHeaders = <<>>
    /\ attempts = <<>>
    /\ forwarded = <<>>
    /\ clientResponse = None
    /\ thrown = None

\* Faulty variant: the pass-through borrows the first account's api key.
proxyUnauthenticatedCredentials_Borrowed ==
    [accessToken |-> None,
     apiKey |-> Some([kind |-> "api_key", of |-> AccountNames[1]])]

\* proxyUnauthenticated's prepareHeaders arguments: no access token, no api key.
proxyUnauthenticatedCredentials == [accessToken |-> None, apiKey |-> None]

\* Faulty variant: the attempt passes neither the token nor the api key.
proxyWithAccountCredentials_Dropped(a, accessToken) ==
    [accessToken |-> None, apiKey |-> None]

\* proxyWithAccount's prepareHeaders arguments: the token it was given and
\* account.api_key || undefined.
proxyWithAccountCredentials(a, accessToken) ==
    [accessToken |-> accessToken,
     apiKey |-> IF TruthyCred(AccountApiKey(a)) THEN AccountApiKey(a) ELSE None]

\* Faulty variant: the catch block swallows the error and resolves to nothing.
proxyUnauthenticatedCatch_Swallows == None

\* proxyUnauthenticated's catch block: whatever was thrown is replaced by a
\* ProviderError with status 502.
proxyUnauthenticatedCatch ==
    Some([name |-> "ProviderError", statusCode |-> 502])

\* forwardToClient: the call's arguments, which the usage record is built from.
forwardToClient(acct, resp, n) ==
    [requestId |-> requestMeta.id, account |-> acct, response |-> resp,
     retryAttempt |-> 0, failoverAttempts |-> n]

\* The orchestrator after select: no candidates means the unauthenticated
\* pass-through, otherwise the first attempt.
Select ==
    /\ pc = "select"
    /\ pc' = IF candidates = <<>> THEN "unauthenticated" ELSE "attempt"
    /\ UNCHANGED <<requestMeta, candidates, hasExtractTierInfo,
                   failoverAttempts, response, queue, tierPending,
                   upstreamCalls, upstreamHeaders, attempts, forwarded, clientResponse, thrown>>
    /\ UNCHANGED otherVars

\* The orchestrator when proxyWithAccount resolves to null: the next candidate
\* with the attempt index one higher, or the end of the list with nothing but
\* nulls in hand.
TryNextAccount ==
    /\ pc = "next"
    /\ IF failoverAttempts + 1 < Len(candidates)
       THEN /\ failoverAttempts' = failoverAttempts + 1
            /\ pc' = "attempt"
            /\ response' = None
       ELSE /\ pc' = "done"
            /\ UNCHANGED <<failoverAttempts, response>>
    /\ UNCHANGED <<requestMeta, candidates, hasExtractTierInfo, queue,
                   tierPending, upstreamCalls, upstreamHeaders, attempts, forwarded,
                   clientResponse, thrown>>
    /\ UNCHANGED otherVars

\* proxyUnauthenticated up to its await: the upstream call without credentials.
proxyUnauthenticated ==
    /\ pc = "unauthenticated"
    /\ upstreamCalls' = Append(upstreamCalls, NoAccount)
    /\ upstreamHeaders' = Append(upstreamHeaders,
          prepareHeaders(ClientHeaders,
                         proxyUnauthenticatedCredentials.accessToken,
                         proxyUnauthenticatedCredentials.apiKey))
    /\ pc' = "unauthenticated_response"
    /\ UNCHANGED <<requestMeta, candidates, hasExtractTierInfo,
                   failoverAttempts, response, queue, tierPending, attempts,
                   forwarded, clientResponse, thrown>>
    /\ UNCHANGED otherVars

\* proxyUnauthenticated after its await: the response goes to forwardToClient
\* whatever its status; a failed call becomes a ProviderError(502).
proxyUnauthenticatedResponse ==
    /\ pc = "unauthenticated_response"
    /\ \/ \E r \in Responses :
             /\ response' = Some(r)
             /\ forwarded' = Append(forwarded, forwardToClient(NoAccount, r, 0))
             /\ clientResponse' = Some(r)
             /\ thrown' = None
       \/ /\ thrown' = proxyUnauthenticatedCatch
          /\ UNCHANGED <<response, forwarded, clientResponse>>
    /\ pc' = "done"
    /\ UNCHANGED <<requestMeta, candidates, hasExtractTierInfo,
                   failoverAttempts, queue, tierPending, upstreamCalls, upstreamHeaders,
                   attempts>>
    /\ UNCHANGED otherVars

\* proxyWithAccount up to its first await: getValidAccessToken is called.
proxyWithAccount ==
    /\ pc = "attempt"
    /\ pc' = "token"
    /\ UNCHANGED <<requestMeta, candidates, hasExtractTierInfo,
                   failoverAttempts, response, queue, tierPending,
                   upstreamCalls, upstreamHeaders, attempts, forwarded, clientResponse, thrown>>
    /\ UNCHANGED otherVars

\* Faulty variant: the catch block rethrows, so the error leaves the attempt.
CatchBlock_Rethrows(kind) ==
    /\ attempts' = Append(attempts, [account |-> account, result |-> kind])
    /\ thrown' = Some([name |-> kind, statusCode |-> 502])
    /\ pc' = "done"

\* Faulty variant: the catch block tries the same account again.
CatchBlock_Retries(kind) ==
    /\ attempts' = attempts
    /\ pc' = "attempt"
    /\ UNCHANGED thrown

\* proxyWithAccount's catch block: the error is logged and the attempt
\* returns null.
CatchBlock(kind) ==
    /\ attempts' = Append(attempts, [account |-> account, result |-> kind])
    /\ pc' = "next"
    /\ UNCHANGED thrown

\* proxyWithAccount when getValidAccessToken settles: with a token the
\* upstream call is issued; a throw lands in the catch block.
proxyWithAccountToken ==
    /\ pc = "token"
    /\ \E result \in {"token", "AuthError", "TransientAuthError"} :
          IF result = "token"
          THEN /\ upstreamCalls' = Append(upstreamCalls, account)
               /\ upstreamHeaders' = Append(upstreamHeaders,
                     LET c == proxyWithAccountCredentials(account,
                                  getValidAccessToken(account))
                     IN  prepareHeaders(ClientHeaders, c.accessToken,
                                        c.apiKey))
               /\ pc' = "request"
               /\ UNCHANGED <<attempts, thrown>>
          ELSE /\ CatchBlock("token_error")
               /\ UNCHANGED <<upstreamCalls, upstreamHeaders>>
    /\ UNCHANGED <<requestMeta, candidates, hasExtractTierInfo,
                   failoverAttempts, response, queue, tierPending, forwarded,
                   clientResponse>>
    /\ UNCHANGED otherVars

\* Faulty variant: the early return on failover is missing, so every classified
\* response is forwarded.
ReturnResponse_NoEarlyReturn(r, shouldFailover) ==
    /\ attempts' = Append(attempts,
          [account |-> account,
           result |-> IF shouldFailover THEN "failover" ELSE "success"])
    /\ forwarded' = Append(forwarded,
          forwardToClient(account, r, failoverAttempts))
    /\ clientResponse' = Some(r)
    /\ pc' = IF shouldFailover THEN "next" ELSE "done"

\* Faulty variant: forwardToClient is given 0 for failoverAttempts, like retryAttempt.
ReturnResponse_ZeroAttempts(r, shouldFailover) ==
    IF shouldFailover
    THEN /\ attempts' = Append(attempts,
               [account |-> account, result |-> "failover"])
         /\ pc' = "next"
         /\ UNCHANGED <<forwarded, clientResponse>>
    ELSE /\ attempts' = Append(attempts,
               [account |-> account, result |-> "success"])
         /\ forwarded' = Append(forwarded, forwardToClient(account, r, 0))
         /\ clientResponse' = Some(r)
         /\ pc' = "done"

\* proxyWithAccount after processProxyResponse: null on failover, otherwise
\* the response goes to forwardToClient with this account, the request id and
\* the attempt index.
ReturnResponse(r, shouldFailover) ==
    IF shouldFailover
    THEN /\ attempts' = Append(attempts,
               [account |-> account, result |-> "failover"])
         /\ pc' = "next"
         /\ UNCHANGED <<forwarded, clientResponse>>
    ELSE /\ attempts' = Append(attempts,
               [account |-> account, result |-> "success"])
         /\ forwarded' = Append(forwarded,
               forwardToClient(account, r, failoverAttempts))
         /\ clientResponse' = Some(r)
         /\ pc' = "done"

\* proxyWithAccount when makeProxyRequest settles: a throw lands in the catch
\* block; a response is classified and then returned as above.
proxyWithAccountResponse ==
    /\ pc = "request"
    /\ \/ \E r \in Responses :
             LET p == processProxyResponse(r, account)
             IN  /\ queue' = queue \o p.ops
                 /\ tierPending' = IF p.metadata /\ hasExtractTierInfo
                                   THEN tierPending \cup {account}
                                   ELSE tierPending
                 /\ response' = Some(r)
                 /\ ReturnResponse(r, p.failover)
                 /\ UNCHANGED thrown
       \/ /\ CatchBlock("request_error")
          /\ UNCHANGED <<response, queue, tierPending, forwarded,
                         clientResponse>>
    /\ UNCHANGED <<requestMeta, candidates, hasExtractTierInfo,
                   failoverAttempts, upstreamCalls, upstreamHeaders>>
    /\ UNCHANGED otherVars

\* updateAccountMetadata's detached async block: extractTierInfo resolves, and
\* a tier that is set and differs from the account's is enqueued.  (A null or
\* unchanged tier enqueues nothing and leaves the state as it is.)
ExtractTierDone ==
    /\ \E a \in tierPending : \E tier \in Option(Tiers) :
          LET update == tierUpdate(AccountTier(a), tier)
          IN  /\ update # None
              /\ tierPending' = tierPending \ {a}
              /\ queue' = Append(queue, TierOp(a, update))
    /\ UNCHANGED <<requestMeta, candidates, hasExtractTierInfo, pc,
                   failoverAttempts, response, upstreamCalls, upstreamHeaders, attempts,
                   forwarded, clientResponse, thrown>>
    /\ UNCHANGED otherVars

Next ==
    \/ Select
    \/ proxyUnauthenticated
    \/ proxyUnauthenticatedResponse
    \/ proxyWithAccount
    \/ proxyWithAccountToken
    \/ proxyWithAccountResponse
    \/ TryNextAccount
    \/ ExtractTierDone

Spec == Init /\ [][Next]_vars

\* ------------------------------------ the store, the writer and the balancer
\* The request pipeline at rest: no request is being served.
RequestIdle ==
    /\ requestMeta \in [id : RequestIds]
    /\ candidates = <<>>
    /\ pc = "idle"
    /\ failoverAttempts = 0
    /\ response = None
    /\ upstreamCalls = <<>>
    /\ upstreamHeaders = <<>>
    /\ attempts = <<>>
    /\ forwarded = <<>>
    /\ clientResponse = None
    /\ thrown = None

\* Any set of accounts may be paused; no account is rate-limited yet.
StoreInit ==
    /\ RequestIdle
    /\ hasExtractTierInfo \in BOOLEAN
    /\ queue = <<>>
    /\ tierPending = {}
    /\ store \in {[a \in Accounts |-> NewRow(a, a \in P)] : P \in SUBSET Accounts}
    /\ now = 0
    /\ selected = None
    /\ TokenIdle
    /\ OAuthIdle
    /\ UiIdle

\* Faulty variant: the operations are applied to the store on the spot.
enqueue_WritesThrough(ops) ==
    /\ store' = ApplyAll(store, ops)
    /\ UNCHANGED queue

\* ctx.asyncWriter.enqueue: the closures join the writer's queue; the store
\* is not touched.
enqueue(ops) ==
    /\ queue' = queue \o ops
    /\ UNCHANGED store

\* An attempt's upstream response arrives and processProxyResponse runs on it.
classifyResponse ==
    /\ selected = None
    /\ attempts = <<>>
    /\ \E a \in Accounts : \E r \in Responses :
          LET p == processProxyResponse(r, a)
          IN  /\ enqueue(p.ops)
              /\ tierPending' = IF p.metadata /\ hasExtractTierInfo
                                THEN tierPending \cup {a}
                                ELSE tierPending
              /\ response' = Some(r)
              /\ attempts' = <<[account |-> a,
                                result |-> IF p.failover THEN "failover"
                                           ELSE "success"]>>
    /\ UNCHANGED <<requestMeta, candidates, hasExtractTierInfo, pc,
                   failoverAttempts, upstreamCalls, upstreamHeaders,
                   forwarded, clientResponse, thrown, now, selected>>
    /\ UNCHANGED <<tokenVars, uiVars, oauthVars>>

\* The async writer applies the operation at the head of its queue.
WriterApply ==
    /\ selected = None
    /\ queue # <<>>
    /\ store' = ApplyOp(store, Head(queue))
    /\ queue' = Tail(queue)
    /\ UNCHANGED <<requestMeta, candidates, hasExtractTierInfo, pc,
                   failoverAttempts, response, tierPending, upstreamCalls,
                   upstreamHeaders, attempts, forwarded, clientResponse,
                   thrown, now, selected>>
    /\ UNCHANGED <<tokenVars, uiVars, oauthVars>>

\* Time passes.
Tick ==
    /\ selected = None
    /\ now < MaxTime
    /\ now' = now + 1
    /\ UNCHANGED <<pipelineVars, store, selected, tokenVars, uiVars, oauthVars>>

\* A request asks the balancer for its candidates.
SelectCandidates ==
    /\ selected = None
    /\ selected' = Some(select(store, now))
    /\ store' = ClearExpired(store, now)
    /\ UNCHANGED <<pipelineVars, now, tokenVars, uiVars, oauthVars>>

\* The request goes its way with the list it was given.
TakeCandidates ==
    /\ selected # None
    /\ selected' = None
    /\ UNCHANGED <<pipelineVars, store, now, tokenVars, uiVars, oauthVars>>

StoreNext ==
    \/ classifyResponse
    \/ ExtractTierDone
    \/ WriterApply
    \/ Tick
    \/ SelectCandidates
    \/ TakeCandidates

StoreSpec == StoreInit /\ [][StoreNext]_vars

\* ------------------------------------------------------- the token manager
\* The writer and the tier extraction at rest.
WriterIdle ==
    /\ hasExtractTierInfo = FALSE
    /\ queue = <<>>
    /\ tierPending = {}

\* One oauth account with a fresh token; NumCallers attempts will ask for it.
TokenInit ==
    /\ RequestIdle
    /\ WriterIdle
    /\ StoreIdle
    /\ TokenIdle
    /\ OAuthIdle
    /\ UiIdle

\* Faulty variant: a caller never joins a refresh that is already running.
JoinsRefresh_Never == FALSE

\* Whether a caller that finds the token stale awaits the refresh in flight
\* instead of starting one.
JoinsRefresh == refreshInFlight # {}

\* The token's expires_at (less the skew) is crossed.
TokenExpires ==
    /\ ~tokenRow.expired /\ tokenRow.access_token = 0
    /\ tokenRow' = [tokenRow EXCEPT !.expired = TRUE]
    /\ UNCHANGED <<pipelineVars, storeVars, oauthVars, uiVars, callers,
                   refreshInFlight, refreshCalls>>

\* An attempt calls getValidAccessToken: a fresh token is returned at once; a
\* stale one makes the caller await the refresh in flight, or start one.
getValidAccessTokenCall(c) ==
    /\ callers[c].pc = "idle"
    /\ IF ~tokenRow.expired
       THEN /\ callers' = [callers EXCEPT ![c] =
                   [pc |-> "done", flight |-> 0,
                    token |-> Some(tokenRow.access_token)]]
            /\ UNCHANGED <<refreshInFlight, refreshCalls>>
       ELSE IF JoinsRefresh
       THEN /\ callers' = [callers EXCEPT ![c] =
                   [pc |-> "waiting",
                    flight |-> CHOOSE k \in refreshInFlight : TRUE,
                    token |-> None]]
            /\ UNCHANGED <<refreshInFlight, refreshCalls>>
       ELSE /\ refreshCalls' = refreshCalls + 1
            /\ refreshInFlight' = refreshInFlight \cup {refreshCalls + 1}
            /\ callers' = [callers EXCEPT ![c] =
                   [pc |-> "waiting", flight |-> refreshCalls + 1,
                    token |-> None]]
    /\ UNCHANGED <<pipelineVars, storeVars, oauthVars, uiVars, tokenRow>>

\* A refresh call settles: on success the row gets the new token and every
\* caller awaiting this refresh receives it; on failure they all get the
\* error.  Either way the refresh is no longer in flight.
RefreshSettles(k) ==
    /\ k \in refreshInFlight
    /\ refreshInFlight' = refreshInFlight \ {k}
    /\ \E outcome \in {"ok", "AuthError", "TransientAuthError"} :
          /\ tokenRow' = IF outcome = "ok"
                         THEN [access_token |-> k, expired |-> FALSE]
                         ELSE tokenRow
          /\ callers' = [c \in Callers |->
                IF callers[c].pc = "waiting" /\ callers[c].flight = k
                THEN [pc |-> IF outcome = "ok" THEN "done" ELSE outcome,
                      flight |-> k,
                      token |-> IF outcome = "ok" THEN Some(k) ELSE None]
                ELSE callers[c]]
    /\ UNCHANGED <<pipelineVars, storeVars, oauthVars, uiVars, refreshCalls>>

TokenNext ==
    \/ TokenExpires
    \/ \E c \in Callers : getValidAccessTokenCall(c)
    \/ \E k \in refreshInFlight : RefreshSettles(k)

TokenSpec == TokenInit /\ [][TokenNext]_vars

\* ------------------------------------------------------------- OAuthFlow
\* What callers pass to begin and complete.
FlowNames == {"work", "home"}
Modes == {"max", "console"}
NoBaseUrl == None
BaseUrls == {NoBaseUrl, Some("https://gateway.example")}
TruthyUrl(opt) == opt # None /\ TheValue(opt) # ""

\* What the OAuth provider's exchangeCode returns: an access token with its
\* expiry, and a refresh token that may be missing.
TokenSets ==
    [accessToken : {"access-token"}, refreshToken : {"refresh-token", ""},
     expiresAt : {1}]

\* The provisioning flows at start; everything else is at rest.
OAuthInit ==
    /\ RequestIdle
    /\ WriterIdle
    /\ StoreIdle
    /\ TokenIdle
    /\ OAuthIdle
    /\ UiIdle

\* Faulty variant: the row keeps the access token next to the api key.
createAccountWithApiKey_KeepsToken(id, name, apiKey, tier, baseUrl) ==
    [id |-> id, name |-> name, provider |-> "anthropic",
     api_key |-> Some(apiKey), refresh_token |-> None,
     access_token |-> Some("access-token"), expires_at |-> None,
     account_tier |-> tier,
     base_url |-> IF TruthyUrl(baseUrl) THEN baseUrl ELSE None,
     authType |-> "api_key"]

\* createAccountWithApiKey: the row it inserts, with the authType it reports.
createAccountWithApiKey(id, name, apiKey, tier, baseUrl) ==
    [id |-> id, name |-> name, provider |-> "anthropic",
     api_key |-> Some(apiKey), refresh_token |-> None,
     access_token |-> None, expires_at |-> None,
     account_tier |-> tier,
     base_url |-> IF TruthyUrl(baseUrl) THEN baseUrl ELSE None,
     authType |-> "api_key"]

\* createAccountWithOAuth: the row it inserts, with the authType it reports.
createAccountWithOAuth(id, name, tokens, tier, baseUrl) ==
    [id |-> id, name |-> name, provider |-> "anthropic",
     api_key |-> None,
     refresh_token |-> Some(IF TruthyStr(tokens.refreshToken)
                            THEN tokens.refreshToken ELSE ""),
     access_token |-> Some(tokens.accessToken),
     expires_at |-> Some(tokens.expiresAt),
     account_tier |-> tier,
     base_url |-> IF TruthyUrl(baseUrl) THEN baseUrl ELSE None,
     authType |-> "oauth"]

\* A call that threw: nothing but the outcome changes.
Throws(call, message) ==
    /\ flowResult' = Some([call |-> call, ok |-> FALSE, message |-> message])
    /\ UNCHANGED <<accounts, flows, sessions>>

\* Faulty variant: the name is never looked up.
nameExists_Never(name) == FALSE

\* begin's lookup: some existing account bears the name.
nameExists(name) == \E i \in DOMAIN accounts : accounts[i].name = name

\* Faulty variant: begin reserves the name with a placeholder row.
begin_ReservesName(name, mode, baseUrl) ==
    /\ sessions < MaxFlows
    /\ \E providerFound \in BOOLEAN :
          IF nameExists(name)
          THEN Throws("begin", "already exists")
          ELSE IF ~providerFound
          THEN Throws("begin", "provider not found")
          ELSE /\ sessions' = sessions + 1
               /\ flows' = flows \cup {[sessionId |-> sessions + 1,
                                         name |-> name, mode |-> mode,
                                         baseUrl |-> baseUrl]}
               /\ flowResult' = Some([call |-> "begin", ok |-> TRUE,
                                       message |-> ""])
               /\ accounts' = Append(accounts,
                     createAccountWithApiKey(Len(accounts) + 1, name, "",
                                             1, NoBaseUrl))
    /\ UNCHANGED <<pipelineVars, storeVars, tokenVars, uiVars>>

\* OAuthFlow.begin: refuses a name some account already bears; otherwise
\* returns the flow data, which its caller keeps for complete.
begin(name, mode, baseUrl) ==
    /\ sessions < MaxFlows
    /\ \E providerFound \in BOOLEAN :
          IF nameExists(name)
          THEN Throws("begin", "already exists")
          ELSE IF ~providerFound
          THEN Throws("begin", "provider not found")
          ELSE /\ sessions' = sessions + 1
               /\ flows' = flows \cup {[sessionId |-> sessions + 1,
                                         name |-> name, mode |-> mode,
                                         baseUrl |-> baseUrl]}
               /\ flowResult' = Some([call |-> "begin", ok |-> TRUE,
                                       message |-> ""])
               /\ UNCHANGED accounts
    /\ UNCHANGED <<pipelineVars, storeVars, tokenVars, uiVars>>

\* The INSERT of a created row; the caller then lets go of the flow data.
InsertAccount(flowData, row) ==
    /\ accounts' = Append(accounts, row)
    /\ flows' = flows \ {flowData}
    /\ flowResult' = Some([call |-> "complete", ok |-> TRUE, message |-> ""])
    /\ UNCHANGED sessions

\* What callers pass to complete, and how the calls complete awaits turn out.
CompleteOptions == [name : FlowNames, tier : Option(Tiers)]
Outcomes ==
    [providerFound : BOOLEAN, exchanged : BOOLEAN, tokens : TokenSets,
     keyCreated : BOOLEAN]

\* Faulty variant: a missing tier defaults to 0.
DefaultTier_Zero(tier) == IF tier = None THEN 0 ELSE TheValue(tier)

\* complete's `tier = 1` default for options without a tier.
DefaultTier(tier) == IF tier = None THEN 1 ELSE TheValue(tier)

\* Faulty variant: only console mode leads to an api key.
storesApiKey_ConsoleOnly(flowData, tokens) == flowData.mode = "console"

\* complete's branch test: console mode, or an exchange without a refresh
\* token, ends in an api-key account.
storesApiKey(flowData, tokens) ==
    flowData.mode = "console" \/ ~TruthyStr(tokens.refreshToken)

\* The balancer's rule for accounts it drops as unusable: an oauth account
\* with neither an access token nor a refresh token.
EmptyToken(token) == token = None \/ token = Some("")
Unusable(row) ==
    /\ row.authType = "oauth"
    /\ EmptyToken(row.access_token)
    /\ EmptyToken(row.refresh_token)

\* Faulty variant: the row is inserted before the api key is created, and
\* stays when the key creation fails.
complete_InsertsBeforeKey(opts, flowData, out) ==
    /\ flowData \in flows
    /\ LET accountId == Len(accounts) + 1
           name == opts.name
           tier == DefaultTier(opts.tier)
           tokens == out.tokens
       IN  IF ~out.providerFound
           THEN Throws("complete", "provider not found")
           ELSE IF ~out.exchanged
           THEN Throws("complete", "exchange failed")
           ELSE IF storesApiKey(flowData, tokens)
           THEN IF TruthyUrl(flowData.baseUrl)
                THEN Throws("complete", "custom base URL")
                ELSE IF ~out.keyCreated
                THEN /\ accounts' = Append(accounts,
                           createAccountWithApiKey(accountId, name, "",
                               tier, flowData.baseUrl))
                     /\ flowResult' = Some([call |-> "complete",
                           ok |-> FALSE,
                           message |-> "api key creation failed"])
                     /\ UNCHANGED <<flows, sessions>>
                ELSE InsertAccount(flowData,
                        createAccountWithApiKey(accountId, name,
                            "raw-key", tier, flowData.baseUrl))
           ELSE InsertAccount(flowData,
                   createAccountWithOAuth(accountId, name, tokens, tier,
                       flowData.baseUrl))
    /\ UNCHANGED <<pipelineVars, storeVars, tokenVars, uiVars>>

\* OAuthFlow.complete with the flow data of an earlier begin: the code is
\* exchanged for tokens; console mode or a missing refresh token leads to an
\* api key and createAccountWithApiKey, anything else to
\* createAccountWithOAuth.
complete(opts, flowData, out) ==
    /\ flowData \in flows
    /\ LET accountId == Len(accounts) + 1
           name == opts.name
           tier == DefaultTier(opts.tier)
           tokens == out.tokens
       IN  IF ~out.providerFound
           THEN Throws("complete", "provider not found")
           ELSE IF ~out.exchanged
           THEN Throws("complete", "exchange failed")
           ELSE IF storesApiKey(flowData, tokens)
           THEN IF TruthyUrl(flowData.baseUrl)
                THEN Throws("complete", "custom base URL")
                ELSE IF ~out.keyCreated
                THEN Throws("complete", "api key creation failed")
                ELSE InsertAccount(flowData,
                        createAccountWithApiKey(accountId, name,
                            "raw-key", tier, flowData.baseUrl))
           ELSE InsertAccount(flowData,
                   createAccountWithOAuth(accountId, name, tokens, tier,
                       flowData.baseUrl))
    /\ UNCHANGED <<pipelineVars, storeVars, tokenVars, uiVars>>

\* The classifier's tier update for an account's row: the tier extraction of
\* one of the account's responses resolved with a tier that is set and
\* differs from the row's, and the update joins the writer queue.
AccountTierExtracted ==
    /\ queue = <<>>
    /\ \E i \in DOMAIN accounts : \E tier \in Option(Tiers) :
          LET update == tierUpdate(accounts[i].account_tier, tier)
          IN  /\ update # None
              /\ queue' = <<TierOp(accounts[i].id, update)>>
    /\ UNCHANGED <<requestMeta, candidates, hasExtractTierInfo, pc,
                   failoverAttempts, response, tierPending, upstreamCalls,
                   upstreamHeaders, attempts, forwarded, clientResponse,
                   thrown>>
    /\ UNCHANGED <<storeVars, tokenVars, uiVars, oauthVars>>

\* The async writer applies the queued tier update to the account's row.
AccountTierApplied ==
    /\ queue # <<>>
    /\ queue' = Tail(queue)
    /\ accounts' = [i \in DOMAIN accounts |->
          IF accounts[i].id = Head(queue).account
          THEN [accounts[i] EXCEPT !.account_tier = TheValue(Head(queue).tier)]
          ELSE accounts[i]]
    /\ UNCHANGED <<requestMeta, candidates, hasExtractTierInfo, pc,
                   failoverAttempts, response, tierPending, upstreamCalls,
                   upstreamHeaders, attempts, forwarded, clientResponse,
                   thrown>>
    /\ UNCHANGED <<flows, sessions, flowResult>>
    /\ UNCHANGED <<storeVars, tokenVars, uiVars>>

OAuthNext ==
    \/ \E name \in FlowNames, mode \in Modes, baseUrl \in BaseUrls :
          begin(name, mode, baseUrl)
    \/ \E opts \in CompleteOptions, flowData \in flows, out \in Outcomes :
          complete(opts, flowData, out)
    \/ AccountTierExtracted
    \/ AccountTierApplied

OAuthSpec == OAuthInit /\ [][OAuthNext]_vars

\* ------------------------------------------- AccountsTab: removing an account
\* Everything behind the dashboard at rest.
backendVars == <<pipelineVars, storeVars, tokenVars, oauthVars>>
BackendIdle ==
    /\ RequestIdle
    /\ WriterIdle
    /\ StoreIdle
    /\ TokenIdle
    /\ OAuthIdle

\* What the user may type into the confirmation field.
TypedInputs == FlowNames \cup {"", "wor"}
NoDialog == [show |-> FALSE, accountName |-> "", confirmInput |-> ""]
MismatchError ==
    "Account name does not match. Please type the exact account name."

\* The dashboard lists the accounts; no dialog is open.
DeleteInit ==
    /\ BackendIdle
    /\ WizardIdle
    /\ ManageIdle
    /\ listed = FlowNames
    /\ confirmDelete = NoDialog
    /\ actionError = None
    /\ removeCalls = <<>>
    /\ removeInFlight = {}

\* handleRemoveAccount: the confirmation dialog opens for a listed account.
handleRemoveAccount(name) ==
    /\ name \in listed
    /\ confirmDelete' = [show |-> TRUE, accountName |-> name,
                          confirmInput |-> ""]
    /\ UNCHANGED <<listed, actionError, removeCalls, removeInFlight>>
    /\ UNCHANGED <<backendVars, wizardVars, manageVars>>

\* onConfirmInputChange: the user edits the confirmation field.
onConfirmInputChange(value) ==
    /\ confirmDelete.show
    /\ confirmDelete' = [confirmDelete EXCEPT !.confirmInput = value]
    /\ UNCHANGED <<listed, actionError, removeCalls, removeInFlight>>
    /\ UNCHANGED <<backendVars, wizardVars, manageVars>>

\* Faulty variant: any non-empty confirmation is accepted.
confirmationMatches_NonEmpty == confirmDelete.confirmInput # ""

\* handleConfirmDelete's test: confirmInput === accountName.
confirmationMatches == confirmDelete.confirmInput = confirmDelete.accountName

\* handleConfirmDelete up to its await: a mismatch sets the error and
\* returns; otherwise api.removeAccount is called with the name and the
\* confirmation.
handleConfirmDelete ==
    /\ confirmDelete.show
    /\ IF ~confirmationMatches
       THEN /\ actionError' = Some(MismatchError)
            /\ UNCHANGED <<removeCalls, removeInFlight>>
       ELSE /\ Len(removeCalls) < MaxRemovals
            /\ removeCalls' = Append(removeCalls,
                  [name |-> confirmDelete.accountName,
                   confirm |-> confirmDelete.confirmInput])
            /\ removeInFlight' = removeInFlight \cup {Len(removeCalls) + 1}
            /\ UNCHANGED actionError
    /\ UNCHANGED <<listed, confirmDelete>>
    /\ UNCHANGED <<backendVars, wizardVars, manageVars>>

\* handleConfirmDelete after its await: on success the accounts are reloaded
\* and the dialog closes; on failure the error is shown.
removeAccountSettles(k) ==
    /\ k \in removeInFlight
    /\ removeInFlight' = removeInFlight \ {k}
    /\ \/ /\ removeCalls[k].name \in listed
          /\ listed' = listed \ {removeCalls[k].name}
          /\ confirmDelete' = NoDialog
          /\ actionError' = None
       \/ /\ actionError' = Some("request failed")
          /\ UNCHANGED <<listed, confirmDelete>>
    /\ UNCHANGED removeCalls
    /\ UNCHANGED <<backendVars, wizardVars, manageVars>>

\* The dialog's onCancel.
onCancelDelete ==
    /\ confirmDelete.show
    /\ confirmDelete' = NoDialog
    /\ actionError' = None
    /\ UNCHANGED <<listed, removeCalls, removeInFlight>>
    /\ UNCHANGED <<backendVars, wizardVars, manageVars>>

DeleteNext ==
    \/ \E name \in FlowNames : handleRemoveAccount(name)
    \/ \E value \in TypedInputs : onConfirmInputChange(value)
    \/ handleConfirmDelete
    \/ \E k \in removeInFlight : removeAccountSettles(k)
    \/ onCancelDelete

DeleteSpec == DeleteInit /\ [][DeleteNext]_vars

\* ------------------------------------------ AccountAddForm: adding an account
\* What the user may type into the wizard's fields.
WizardNames == {"", "work"}
WizardBaseUrls == {"", "https://gateway.example"}
AuthCodes == {"", "code"}
ApiKeys == {"", "sk-key"}

formVars == <<authStep, authCode, apiKeyInput, sessionId, newAccount>>
callVars == <<initCalls, completeCalls, directCalls>>
historyVars == <<onSuccessCalls>>
dialogVars == <<confirmDelete, removeCalls, removeInFlight>>

\* The accounts are listed; no wizard is mounted.
WizardInit ==
    /\ BackendIdle
    /\ WizardIdle
    /\ ManageIdle
    /\ listed = {"home"}
    /\ confirmDelete = NoDialog
    /\ actionError = None
    /\ removeCalls = <<>>
    /\ removeInFlight = {}

\* A mounted wizard's state, as its useState calls initialise it; an unmounted
\* wizard has no state, which is represented by the same values.
FreshForm ==
    /\ authStep' = "form"
    /\ authCode' = ""
    /\ apiKeyInput' = ""
    /\ sessionId' = NoSession
    /\ newAccount' = BlankAccount
    /\ lastInit' = NoSession
    /\ skippedOAuth' = FALSE

\* Faulty variant: a call made by an unmounted wizard acts on the mounted one.
Live_AnyInstance(req) == adding

\* The wizard instance that made the call is still the mounted one.
Live(req) == adding /\ req.instance = instance

\* AccountsTab's "Add Account" button: setAdding(true) mounts a wizard.
openWizard ==
    /\ ~adding
    /\ instance < MaxWizards
    /\ adding' = TRUE
    /\ instance' = instance + 1
    /\ FreshForm
    /\ UNCHANGED <<callVars, wizardInFlight, issued>>
    /\ UNCHANGED <<listed, actionError, dialogVars, backendVars, manageVars, historyVars>>

\* The form step's fields (the name and the base URL are edited here; mode
\* and tier stay as initialised).
setNewAccount(field, value) ==
    /\ adding
    /\ authStep = "form"
    /\ newAccount' = [newAccount EXCEPT ![field] = value]
    /\ UNCHANGED <<adding, instance, authStep, authCode, apiKeyInput,
                   sessionId, callVars, wizardInFlight, issued, lastInit,
                   skippedOAuth>>
    /\ UNCHANGED <<listed, actionError, dialogVars, backendVars, manageVars, historyVars>>

\* The code step's field.
setAuthCode(value) ==
    /\ adding
    /\ authStep = "code"
    /\ authCode' = value
    /\ UNCHANGED <<adding, instance, authStep, apiKeyInput, sessionId,
                   newAccount, callVars, wizardInFlight, issued, lastInit,
                   skippedOAuth>>
    /\ UNCHANGED <<listed, actionError, dialogVars, backendVars, manageVars, historyVars>>

\* The api-key step's field.
setApiKey(value) ==
    /\ adding
    /\ authStep = "apikey"
    /\ apiKeyInput' = value
    /\ UNCHANGED <<adding, instance, authStep, authCode, sessionId,
                   newAccount, callVars, wizardInFlight, issued, lastInit,
                   skippedOAuth>>
    /\ UNCHANGED <<listed, actionError, dialogVars, backendVars, manageVars, historyVars>>

\* handleAddAccount's test `if (newAccount.baseUrl)`.
usesDirectApiKey == newAccount.baseUrl # ""

\* handleAddAccount up to its await: a missing name is an error; a base URL
\* leads to the api-key step; otherwise the OAuth flow is initialised.
handleAddAccount ==
    /\ adding
    /\ authStep = "form"
    /\ IF newAccount.name = ""
       THEN /\ actionError' = Some("Account name is required")
            /\ UNCHANGED <<authStep, skippedOAuth, initCalls, wizardInFlight>>
       ELSE IF usesDirectApiKey
       THEN /\ authStep' = "apikey"
            /\ skippedOAuth' = TRUE
            /\ UNCHANGED <<actionError, initCalls, wizardInFlight>>
       ELSE /\ Len(initCalls) < MaxWizardCalls
            /\ initCalls' = Append(initCalls,
                  [instance |-> instance, params |-> newAccount])
            /\ wizardInFlight' = wizardInFlight \cup
                  {[kind |-> "init", k |-> Len(initCalls) + 1,
                    instance |-> instance]}
            /\ UNCHANGED <<actionError, authStep, skippedOAuth>>
    /\ UNCHANGED <<adding, instance, authCode, apiKeyInput, sessionId,
                   newAccount, completeCalls, directCalls, issued, lastInit>>
    /\ UNCHANGED <<listed, dialogVars, backendVars, manageVars, historyVars>>

\* handleAddAccount after its await.  The call threw: AccountsTab shows the
\* error and the handler ends.  No result: an error is shown.  Otherwise the
\* result asks for an api key, or carries the session of the flow; the
\* wizard's state follows if that wizard is still mounted.
initSettles(req) ==
    /\ req \in wizardInFlight
    /\ req.kind = "init"
    /\ wizardInFlight' = wizardInFlight \ {req}
    /\ \/ /\ actionError' = Some("request failed")
          /\ UNCHANGED <<authStep, sessionId, issued, lastInit>>
       \/ /\ actionError' = Some("Failed to initialize OAuth flow")
          /\ UNCHANGED <<authStep, sessionId, issued, lastInit>>
       \/ /\ actionError' = None
          /\ authStep' = IF Live(req) THEN "apikey" ELSE authStep
          /\ UNCHANGED <<sessionId, issued, lastInit>>
       \/ /\ actionError' = None
          /\ issued' = Append(issued, initCalls[req.k].params.name)
          /\ IF Live(req)
             THEN /\ sessionId' = Len(issued) + 1
                  /\ authStep' = "code"
             ELSE UNCHANGED <<authStep, sessionId>>
          /\ lastInit' = IF adding /\ initCalls[req.k].instance = instance
                         THEN Len(issued) + 1
                         ELSE lastInit
    /\ UNCHANGED <<adding, instance, authCode, apiKeyInput, newAccount,
                   callVars, skippedOAuth>>
    /\ UNCHANGED <<listed, dialogVars, backendVars, manageVars, historyVars>>

\* handleCodeSubmit up to its await: without a code an error is shown;
\* otherwise the flow is completed with the session and the code.
handleCodeSubmit ==
    /\ adding
    /\ authStep = "code"
    /\ IF authCode = ""
       THEN /\ actionError' = Some("Authorization code is required")
            /\ UNCHANGED <<completeCalls, wizardInFlight>>
       ELSE /\ Len(completeCalls) < MaxWizardCalls
            /\ completeCalls' = Append(completeCalls,
                  [instance |-> instance, sessionId |-> sessionId,
                   code |-> authCode])
            /\ wizardInFlight' = wizardInFlight \cup
                  {[kind |-> "complete", k |-> Len(completeCalls) + 1,
                    instance |-> instance]}
            /\ UNCHANGED actionError
    /\ UNCHANGED <<adding, instance, formVars, initCalls, directCalls,
                   issued, lastInit, skippedOAuth>>
    /\ UNCHANGED <<listed, dialogVars, backendVars, manageVars, historyVars>>

\* Faulty variant: AccountsTab never unmounts the wizard.
parentCloses_Never == FALSE

\* handleCompleteAccount and handleAddDirectAccount end in setAdding(false),
\* and so does the onSuccess they are followed by.
parentCloses == TRUE

\* Faulty variant: AccountsTab shows the error and swallows it.
rethrows_Swallowed == FALSE

\* The catch blocks of handleCompleteAccount and handleAddDirectAccount
\* end in `throw err`.
rethrows == TRUE

\* The resets at the end of handleCodeSubmit and of handleApiKeySubmit, as far
\* as the wizard that made the call is still mounted.
handlerResets(req) ==
    IF ~Live(req)
    THEN UNCHANGED <<formVars, lastInit, skippedOAuth>>
    ELSE /\ authStep' = "form"
         /\ newAccount' = BlankAccount
         /\ skippedOAuth' = FALSE
         /\ UNCHANGED lastInit
         /\ IF req.kind = "complete"
            THEN /\ authCode' = ""
                 /\ sessionId' = NoSession
                 /\ UNCHANGED apiKeyInput
            ELSE /\ apiKeyInput' = ""
                 /\ UNCHANGED <<authCode, sessionId>>

\* An account-creating call settles.  Success: AccountsTab reloads the
\* accounts and unmounts the wizard, the handler resets the form and calls
\* onSuccess.  Failure (of the call, or of the reload after it): the error is
\* shown and rethrown, and the handler ends where it was.
accountCallSettles(req, name) ==
    /\ wizardInFlight' = wizardInFlight \ {req}
    /\ \/ /\ listed' = listed \cup {name}
          /\ actionError' = None
          /\ onSuccessCalls' = onSuccessCalls \cup {req}
          /\ adding' = IF parentCloses THEN FALSE ELSE adding
          /\ IF parentCloses THEN FreshForm ELSE handlerResets(req)
       \/ /\ actionError' = Some("request failed")
          /\ UNCHANGED listed
          /\ IF rethrows
             THEN UNCHANGED <<adding, formVars, lastInit, skippedOAuth,
                              onSuccessCalls>>
             ELSE /\ onSuccessCalls' = onSuccessCalls \cup {req}
                  /\ adding' = FALSE
                  /\ FreshForm
    /\ UNCHANGED <<instance, callVars, issued>>
    /\ UNCHANGED <<dialogVars, backendVars, manageVars>>

\* handleCodeSubmit after its await, with handleCompleteAccount.
completeSettles(req) ==
    /\ req \in wizardInFlight
    /\ req.kind = "complete"
    /\ accountCallSettles(req, issued[completeCalls[req.k].sessionId])

\* handleApiKeySubmit up to its await: without a key an error is shown;
\* otherwise the account is added directly.
handleApiKeySubmit ==
    /\ adding
    /\ authStep = "apikey"
    /\ IF apiKeyInput = ""
       THEN /\ actionError' = Some("API key is required")
            /\ UNCHANGED <<directCalls, wizardInFlight>>
       ELSE /\ Len(directCalls) < MaxWizardCalls
            /\ directCalls' = Append(directCalls,
                  [instance |-> instance, name |-> newAccount.name,
                   apiKey |-> apiKeyInput, tier |-> newAccount.tier,
                   baseUrl |-> newAccount.baseUrl])
            /\ wizardInFlight' = wizardInFlight \cup
                  {[kind |-> "direct", k |-> Len(directCalls) + 1,
                    instance |-> instance]}
            /\ UNCHANGED actionError
    /\ UNCHANGED <<adding, instance, formVars, initCalls, completeCalls,
                   issued, lastInit, skippedOAuth>>
    /\ UNCHANGED <<listed, dialogVars, backendVars, manageVars, historyVars>>

\* handleApiKeySubmit after its await, with handleAddDirectAccount.
directSettles(req) ==
    /\ req \in wizardInFlight
    /\ req.kind = "direct"
    /\ accountCallSettles(req, directCalls[req.k].name)

\* handleCancel, with AccountsTab's onCancel: the wizard is unmounted.
handleCancel ==
    /\ adding
    /\ adding' = FALSE
    /\ actionError' = None
    /\ FreshForm
    /\ UNCHANGED <<instance, callVars, wizardInFlight, issued>>
    /\ UNCHANGED <<listed, dialogVars, backendVars, manageVars, historyVars>>

WizardNext ==
    \/ openWizard
    \/ \E value \in WizardNames : setNewAccount("name", value)
    \/ \E value \in WizardBaseUrls : setNewAccount("baseUrl", value)
    \/ \E value \in AuthCodes : setAuthCode(value)
    \/ \E value \in ApiKeys : setApiKey(value)
    \/ handleAddAccount
    \/ \E req \in wizardInFlight : initSettles(req)
    \/ handleCodeSubmit
    \/ \E req \in wizardInFlight : completeSettles(req)
    \/ handleApiKeySubmit
    \/ \E req \in wizardInFlight : directSettles(req)
    \/ handleCancel

WizardSpec == WizardInit /\ [][WizardNext]_vars

\* --------------------------------------- AccountsTab: pausing and resuming
\* Everything of the dashboard but the account list at rest.
EditIdle ==
    /\ editDialog = NoEditDialog
    /\ formData = NoFormData
    /\ errors = {}
    /\ saveTasks = <<>>
    /\ editCalls = <<>>

\* The account is listed as the server holds it, paused or not.
PauseInit ==
    /\ BackendIdle
    /\ DeleteIdle
    /\ WizardIdle
    /\ EditIdle
    /\ serverAccount \in ServerAccounts
    /\ loadedAccount = ListedAccount(serverAccount)
    /\ pauseTasks = <<>>
    /\ pauseCalls = <<>>

\* handlePauseToggle's choice of call, from the account object of the list.
toggleCall(listedAccount) == IF listedAccount.paused THEN "resume" ELSE "pause"

\* handlePauseToggle up to its first await: the call is sent.
handlePauseToggle ==
    /\ Len(pauseTasks) < MaxToggles
    /\ pauseCalls' = Append(pauseCalls, toggleCall(loadedAccount))
    /\ pauseTasks' = Append(pauseTasks,
          [call |-> toggleCall(loadedAccount), at |-> "call"])
    /\ UNCHANGED <<accountVars, editVars, actionError>>
    /\ UNCHANGED <<listed, dialogVars, wizardVars, backendVars>>

\* The pause or resume call settles: the server sets or clears the flag and
\* the list is reloaded next; or the call fails and the error is shown.
pauseCallSettles(k) ==
    /\ pauseTasks[k].at = "call"
    /\ \/ /\ serverAccount' =
                [serverAccount EXCEPT !.paused = (pauseTasks[k].call = "pause")]
          /\ pauseTasks' = [pauseTasks EXCEPT ![k].at = "reload"]
          /\ UNCHANGED actionError
       \/ /\ actionError' = Some("request failed")
          /\ pauseTasks' = [pauseTasks EXCEPT ![k].at = "done"]
          /\ UNCHANGED serverAccount
    /\ UNCHANGED <<loadedAccount, pauseCalls, editVars>>
    /\ UNCHANGED <<listed, dialogVars, wizardVars, backendVars>>

\* loadAccounts settles: the list shows the account as the server holds it;
\* or the reload fails and the error is shown.
pauseReloadSettles(k) ==
    /\ pauseTasks[k].at = "reload"
    /\ pauseTasks' = [pauseTasks EXCEPT ![k].at = "done"]
    /\ \/ /\ loadedAccount' = ListedAccount(serverAccount)
          /\ UNCHANGED actionError
       \/ /\ actionError' = Some("request failed")
          /\ UNCHANGED loadedAccount
    /\ UNCHANGED <<serverAccount, pauseCalls, editVars>>
    /\ UNCHANGED <<listed, dialogVars, wizardVars, backendVars>>

PauseNext ==
    \/ handlePauseToggle
    \/ \E k \in DOMAIN pauseTasks : pauseCallSettles(k)
    \/ \E k \in DOMAIN pauseTasks : pauseReloadSettles(k)

PauseSpec == PauseInit /\ [][PauseNext]_vars

\* ------------------------------------------ AccountEditDialog and its save
\* Names are sequences of characters, so that trimming and the length limit
\* are computed on them.
LongName == [i \in 1..(MaxNameLength + 1) |-> "x"]
TypedNames == {<<" ">>, NameA, <<" ">> \o NameB \o <<" ">>, LongName}
EditTiers == {1, 5}

\* String.prototype.trim on such a name.
RECURSIVE trimStart(_)
trimStart(s) ==
    IF s # <<>> /\ Head(s) = " " THEN trimStart(Tail(s)) ELSE s
RECURSIVE trimEnd(_)
trimEnd(s) ==
    IF s # <<>> /\ s[Len(s)] = " "
    THEN trimEnd(SubSeq(s, 1, Len(s) - 1))
    ELSE s
trim(s) == trimEnd(trimStart(s))

\* What the user may type into the number fields: nothing that parses, or a
\* number; and `parseInt(value) || fallback`.
TypedLimits == Option({-1, 0, MaxCustomLimit + 1})
TypedWindows == Option({0, MaxResetWindow + 1})
parseIntOr(typed, fallback) ==
    IF typed = None \/ TheValue(typed) = 0 THEN fallback ELSE TheValue(typed)

\* The account is listed as stored; no dialog is open.
EditInit ==
    /\ BackendIdle
    /\ DeleteIdle
    /\ WizardIdle
    /\ ManageIdle

\* handleEdit: the dialog is mounted for the account of the list, and its
\* form is initialised from that account.  (The user does not reopen the
\* dialog while a save is still running.)
handleEdit ==
    /\ ~editDialog.isOpen
    /\ \A k \in DOMAIN saveTasks : saveTasks[k].at \in {"done", "failed"}
    /\ editDialog' = [isOpen |-> TRUE, account |-> Some(loadedAccount),
                      isLoading |-> FALSE]
    /\ formData' = [name |-> loadedAccount.name,
                    tier |-> IF loadedAccount.tier # 0
                             THEN loadedAccount.tier ELSE 1,
                    paused |-> loadedAccount.paused,
                    rateLimitOverrideEnabled |-> FALSE,
                    customLimit |-> DefaultCustomLimit,
                    resetWindowMinutes |-> DefaultResetWindow]
    /\ errors' = {}
    /\ UNCHANGED <<accountVars, saveTasks, editCalls, pauseVars, actionError>>
    /\ UNCHANGED <<listed, dialogVars, wizardVars, backendVars>>

\* The dialog's fields; they are disabled while a save is loading, and the
\* two number fields exist only while the override is switched on.  Editing
\* the name or a number clears that field's error.
setFormData(field, value) ==
    /\ editDialog.isOpen
    /\ ~editDialog.isLoading
    /\ field \in {"customLimit", "resetWindowMinutes"} =>
          formData.rateLimitOverrideEnabled
    /\ formData' = [formData EXCEPT ![field] = value]
    /\ errors' = IF field \in {"name", "customLimit", "resetWindowMinutes"}
                 THEN errors \ {field} ELSE errors
    /\ UNCHANGED <<accountVars, editDialog, saveTasks, editCalls, pauseVars,
                   actionError>>
    /\ UNCHANGED <<listed, dialogVars, wizardVars, backendVars>>

\* Faulty variant: the override's numbers are not validated.
validateForm_NameOnly(fd) ==
    {f \in {"name"} : trim(fd.name) = <<>> \/ Len(trim(fd.name)) > MaxNameLength}

\* validateForm: the fields in error.
validateForm(fd) ==
    {f \in {"name"} :
        trim(fd.name) = <<>> \/ Len(trim(fd.name)) > MaxNameLength}
    \cup {f \in {"customLimit"} :
        /\ fd.rateLimitOverrideEnabled
        /\ (fd.customLimit < 1 \/ fd.customLimit > MaxCustomLimit)}
    \cup {f \in {"resetWindowMinutes"} :
        /\ fd.rateLimitOverrideEnabled
        /\ (fd.resetWindowMinutes < 1
              \/ fd.resetWindowMinutes > MaxResetWindow)}

\* handleSubmit's update set: what differs from the account the dialog was
\* opened for, and the override if it is switched on.
NoUpdates ==
    [name |-> None, tier |-> None, paused |-> None, rateLimitOverride |-> None]
buildUpdates(fd, acct) ==
    [name |-> IF trim(fd.name) # acct.name THEN Some(trim(fd.name)) ELSE None,
     tier |-> IF fd.tier # acct.tier THEN Some(fd.tier) ELSE None,
     paused |-> IF fd.paused # acct.paused THEN Some(fd.paused) ELSE None,
     rateLimitOverride |->
        IF fd.rateLimitOverrideEnabled
        THEN Some([enabled |-> TRUE, customLimit |-> fd.customLimit,
                   resetWindowMinutes |-> fd.resetWindowMinutes])
        ELSE None]

\* handleSaveEdit's calls, in the order of its if statements; after them the
\* reload.
SaveSteps == <<"rename", "tier", "pause", "rateLimit", "reload">>
Wanted(updates, step) ==
    CASE step = "rename" ->
            updates.name # None /\ TheValue(updates.name) # <<>>
      [] step = "tier" -> updates.tier # None
      [] step = "pause" -> updates.paused # None
      [] step = "rateLimit" -> updates.rateLimitOverride # None
      [] step = "reload" -> TRUE
StepIndex(step) == CHOOSE i \in DOMAIN SaveSteps : SaveSteps[i] = step

\* The step that follows position i when nothing failed.
StepAfter(updates, i) ==
    SaveSteps[CHOOSE j \in (i + 1)..Len(SaveSteps) :
        /\ Wanted(updates, SaveSteps[j])
        /\ \A l \in (i + 1)..(j - 1) : ~Wanted(updates, SaveSteps[l])]

\* handleSubmit, with handleSaveEdit up to its first await: nothing is done
\* while validation fails or nothing differs; otherwise onSave is called,
\* the dialog shows loading and the first call is sent.
handleSubmit ==
    /\ editDialog.isOpen
    /\ ~editDialog.isLoading
    /\ LET updates == buildUpdates(formData, TheValue(editDialog.account))
       IN  IF validateForm(formData) # {}
           THEN /\ errors' = validateForm(formData)
                /\ UNCHANGED <<editDialog, saveTasks>>
           ELSE IF updates = NoUpdates
           THEN /\ errors' = {}
                /\ UNCHANGED <<editDialog, saveTasks>>
           ELSE /\ Len(saveTasks) < MaxSaves
                /\ errors' = {}
                /\ editDialog' = [editDialog EXCEPT !.isLoading = TRUE]
                /\ saveTasks' = Append(saveTasks,
                      [updates |-> updates, at |-> StepAfter(updates, 0)])
    /\ UNCHANGED <<accountVars, formData, editCalls, pauseVars, actionError>>
    /\ UNCHANGED <<listed, dialogVars, wizardVars, backendVars>>

\* What a call of handleSaveEdit does on the server when it succeeds.
applyUpdate(row, updates, step) ==
    CASE step = "rename" -> [row EXCEPT !.name = TheValue(updates.name)]
      [] step = "tier" -> [row EXCEPT !.tier = TheValue(updates.tier)]
      [] step = "pause" -> [row EXCEPT !.paused = TheValue(updates.paused)]
      [] step = "rateLimit" ->
            [row EXCEPT !.rateLimitOverride = updates.rateLimitOverride]

\* Faulty variant: the catch block closes the dialog.
saveFails_ClosesDialog(k) ==
    /\ saveTasks' = [saveTasks EXCEPT ![k].at = "failed"]
    /\ actionError' = Some("request failed")
    /\ editDialog' = NoEditDialog

\* handleSaveEdit's catch block.
saveFails(k) ==
    /\ saveTasks' = [saveTasks EXCEPT ![k].at = "failed"]
    /\ actionError' = Some("request failed")
    /\ editDialog' = [editDialog EXCEPT !.isLoading = FALSE]

\* One of handleSaveEdit's calls settles: it succeeded and the next wanted
\* step follows, or it failed and the catch block runs.
saveCallSettles(k) ==
    /\ saveTasks[k].at \in {"rename", "tier", "pause", "rateLimit"}
    /\ editCalls' = Append(editCalls, [save |-> k, call |-> saveTasks[k].at])
    /\ \/ /\ serverAccount' = applyUpdate(serverAccount, saveTasks[k].updates,
                                          saveTasks[k].at)
          /\ saveTasks' = [saveTasks EXCEPT ![k].at =
                StepAfter(saveTasks[k].updates, StepIndex(saveTasks[k].at))]
          /\ UNCHANGED <<editDialog, actionError>>
       \/ /\ saveFails(k)
          /\ UNCHANGED serverAccount
    /\ UNCHANGED <<loadedAccount, formData, errors, pauseVars>>
    /\ UNCHANGED <<listed, dialogVars, wizardVars, backendVars>>

\* handleSaveEdit's loadAccounts settles: the list is reloaded and the dialog
\* closes, or the reload failed and the catch block runs.
saveReloadSettles(k) ==
    /\ saveTasks[k].at = "reload"
    /\ \/ /\ loadedAccount' = ListedAccount(serverAccount)
          /\ saveTasks' = [saveTasks EXCEPT ![k].at = "done"]
          /\ editDialog' = NoEditDialog
          /\ formData' = NoFormData
          /\ errors' = {}
          /\ actionError' = None
       \/ /\ saveFails(k)
          /\ UNCHANGED <<loadedAccount, formData, errors>>
    /\ UNCHANGED <<serverAccount, editCalls, pauseVars>>
    /\ UNCHANGED <<listed, dialogVars, wizardVars, backendVars>>

\* onClose, from the dialog's Cancel button or its onOpenChange.
onCloseEdit ==
    /\ editDialog.isOpen
    /\ editDialog' = NoEditDialog
    /\ formData' = NoFormData
    /\ errors' = {}
    /\ UNCHANGED <<accountVars, saveTasks, editCalls, pauseVars, actionError>>
    /\ UNCHANGED <<listed, dialogVars, wizardVars, backendVars>>

EditNext ==
    \/ handleEdit
    \/ \E value \in TypedNames : setFormData("name", value)
    \/ \E value \in EditTiers : setFormData("tier", value)
    \/ \E value \in BOOLEAN : setFormData("paused", value)
    \/ \E value \in BOOLEAN : setFormData("rateLimitOverrideEnabled", value)
    \/ \E typed \in TypedLimits :
          setFormData("customLimit", parseIntOr(typed, DefaultCustomLimit))
    \/ \E typed \in TypedWindows :
          setFormData("resetWindowMinutes",
                      parseIntOr(typed, DefaultResetWindow))
    \/ handleSubmit
    \/ \E k \in DOMAIN saveTasks : saveCallSettles(k)
    \/ \E k \in DOMAIN saveTasks : saveReloadSettles(k)
    \/ onCloseEdit

EditSpec == EditInit /\ [][EditNext]_vars

\* ------------------------------------------------------------ vocabulary
\* The operations of one kind enqueued for an account, in enqueue order.
OpsOf(a, kind) ==
    SelectSeq(queue, LAMBDA o : o.account = a /\ o.op = kind)
CountOps(a, kind) == Len(OpsOf(a, kind))
NoOpsFor(a) == \A i \in DOMAIN queue : queue[i].account # a

\* The latest attempt got a response and processProxyResponse has run on it;
\* response is that response until the next attempt starts.
Classified ==
    /\ pc \in {"next", "done"}
    /\ attempts # <<>>
    /\ Last(attempts).result \in {"failover", "success"}
    /\ response # None
LastResponse == TheValue(response)
LastAccount == Last(attempts).account
LastSignal == parseRateLimit(LastResponse)
SignalledFailover == Last(attempts).result = "failover"
RateLimitedWithReset ==
    LastSignal.isRateLimited /\ LastSignal.resetTime # None
Failed(i) == attempts[i].result # "success"
Succeeded ==
    pc = "done" /\ attempts # <<>> /\ Last(attempts).result = "success"
Exhausted ==
    /\ pc = "done"
    /\ attempts # <<>>
    /\ \A i \in DOMAIN attempts : Failed(i)

C3_NonSuccessEnqueuesNothing ==
    (Classified /\ LastResponse.status # 200 /\ ~RateLimitedWithReset) =>
        /\ NoOpsFor(LastAccount)
        /\ LastAccount \notin tierPending

\* A 429 tagged rate_limited without a reset time was classified: failover,
\* nothing enqueued for the account.
C3_Witness ==
    /\ Classified
    /\ LastResponse.status = 429
    /\ LastResponse.statusHeader = "rate_limited"
    /\ LastResponse.resetHeader = None
    /\ SignalledFailover
    /\ NoOpsFor(LastAccount)

\* C4: a response classified SUCCESS enqueues exactly one usage increment for
\* its account, a rate-limit meta update iff the signal has a status tag, and
\* no rate-limit mark.
C4_SuccessMetadata ==
    (Classified /\ ~SignalledFailover) =>
        /\ CountOps(LastAccount, "updateAccountUsage") = 1
        /\ CountOps(LastAccount, "updateAccountRateLimitMeta")
              = (IF LastSignal.statusHeader # NoHeader THEN 1 ELSE 0)
        /\ CountOps(LastAccount, "markAccountRateLimited") = 0

\* A 200 tagged allowed was classified SUCCESS: one usage increment and one
\* meta update for the account.
C4_Witness ==
    /\ Classified
    /\ ~SignalledFailover
    /\ LastResponse.statusHeader = "allowed"
    /\ CountOps(LastAccount, "updateAccountUsage") = 1
    /\ CountOps(LastAccount, "updateAccountRateLimitMeta") = 1

\* C5 as stated: when a request fails over and then succeeds, no usage
\* increment is enqueued for an account whose attempt ended in failover or an
\* exception.
C5_AsStated ==
    Succeeded =>
        \A i \in DOMAIN attempts :
            Failed(i) => CountOps(attempts[i].account, "updateAccountUsage") = 0

\* C6 as stated: when every candidate was tried and failed over, the client
\* receives the last upstream response, and one usage record carries that
\* response and attempts equal to the number of accounts tried.
C6_AsStated ==
    (Exhausted /\ \A i \in DOMAIN attempts : attempts[i].result = "failover") =>
        /\ response # None
        /\ clientResponse = response
        /\ Len(forwarded) = 1
        /\ forwarded[1].response = LastResponse
        /\ forwarded[1].failoverAttempts + 1 = Len(attempts)

\* C7: a request that ends with a response has handed exactly one response to
\* forwardToClient, with the request's id and the account of the successful
\* attempt (none on the unauthenticated path); no attempt that ended in
\* failover or an exception was ever forwarded.
C7_ForwardedOnce ==
    /\ Len(forwarded) <= 1
    /\ \A i \in DOMAIN attempts : \A j \in DOMAIN forwarded :
          Failed(i) => forwarded[j].account # attempts[i].account
    /\ (pc = "done" /\ clientResponse # None) =>
          /\ Len(forwarded) = 1
          /\ forwarded[1].requestId = requestMeta.id
          /\ forwarded[1].response = TheValue(clientResponse)
          /\ forwarded[1].account =
                (IF attempts = <<>> THEN NoAccount ELSE LastAccount)
          /\ attempts # <<>> => Last(attempts).result = "success"

\* A failed over once, B succeeded; B's response alone was forwarded.
C7_Witness ==
    /\ Succeeded
    /\ Len(attempts) = 2
    /\ attempts[1].result = "failover"
    /\ Len(forwarded) = 1
    /\ forwarded[1].account = attempts[2].account

\* C8: after N failed attempts and a success on candidate N+1, the forwarded
\* record has failoverAttempts = N (attempt N+1) and the successful account,
\* and the client receives that account's 200.
C8_AttemptCount ==
    Succeeded =>
        /\ forwarded # <<>>
        /\ Last(forwarded).failoverAttempts + 1 = Len(attempts)
        /\ \A i \in 1..(Len(attempts) - 1) : Failed(i)
        /\ Last(forwarded).account = candidates[Len(attempts)]
        /\ clientResponse = Some(Last(forwarded).response)
        /\ Last(forwarded).response.status = 200

\* A's attempt returned 529 and failed over, B returned 200: attempt 2,
\* account B.
C8_Witness ==
    /\ Succeeded
    /\ attempts = <<[account |-> "A", result |-> "failover"],
                    [account |-> "B", result |-> "success"]>>
    /\ NoOpsFor("A")
    /\ Last(forwarded).failoverAttempts = 1
    /\ Last(forwarded).account = "B"

\* C9: within the request no account gets a second attempt or a second
\* upstream call, and an account whose token could not be obtained gets none.
C9_NoRetry ==
    /\ \A i, j \in DOMAIN attempts :
          i # j => attempts[i].account # attempts[j].account
    /\ \A i, j \in DOMAIN upstreamCalls :
          i # j => upstreamCalls[i] # upstreamCalls[j]
    /\ \A i \in DOMAIN attempts :
          attempts[i].result = "token_error"
             => attempts[i].account \notin Range(upstreamCalls)
    /\ Len(upstreamCalls) <= Len(attempts) + 1

\* Both accounts were called once and both attempts failed: one by the
\* upstream call throwing, one by failover.
C9_Witness ==
    /\ Exhausted
    /\ attempts = <<[account |-> "A", result |-> "request_error"],
                    [account |-> "B", result |-> "failover"]>>
    /\ upstreamCalls = <<"A", "B">>

\* C10: a token failure or a throwing upstream call ends the attempt as
\* failed without leaving it: nothing is thrown out of the request, nothing
\* is enqueued for that account, a token failure issues no upstream call, and
\* the candidates are tried in order until one succeeds or all were tried.
C10_AttemptErrorsContained ==
    /\ candidates # <<>> => thrown = None
    /\ \A i \in DOMAIN attempts :
          /\ attempts[i].account = candidates[i]
          /\ attempts[i].result \in {"token_error", "request_error"} =>
                /\ NoOpsFor(attempts[i].account)
                /\ attempts[i].account \notin tierPending
          /\ attempts[i].result = "token_error" =>
                attempts[i].account \notin Range(upstreamCalls)
    /\ Exhausted => Len(attempts) = Len(candidates)
    /\ (pc = "done" /\ candidates # <<>>) => (Exhausted \/ Succeeded)

\* A's token could not be obtained; the request went on to B, which
\* succeeded.
C10_Witness ==
    /\ Succeeded
    /\ Len(attempts) = 2
    /\ attempts[1].result = "token_error"
    /\ upstreamCalls = <<attempts[2].account>>

\* C11: with no eligible account the request is forwarded upstream exactly
\* once and without credentials; the upstream's response goes to the client
\* whatever its status, nothing is classified or enqueued, and the usage
\* record is built for account null.
C11_UnauthenticatedPassThrough ==
    candidates = <<>> =>
        /\ Len(upstreamCalls) <= 1
        /\ \A i \in DOMAIN upstreamCalls :
               /\ upstreamCalls[i] = NoAccount
               /\ upstreamHeaders[i] = NoCredentials
        /\ queue = <<>> /\ tierPending = {} /\ attempts = <<>>
        /\ pc = "done" => Len(upstreamCalls) = 1
        /\ (pc = "done" /\ response # None) =>
               /\ clientResponse = response
               /\ thrown = None
               /\ forwarded = <<forwardToClient(NoAccount, LastResponse, 0)>>

C11_Witness ==
    /\ candidates = <<>> /\ pc = "done"
    /\ response # None /\ LastSignal.isRateLimited /\ LastResponse.status = 429
    /\ clientResponse = response
    /\ forwarded # <<>> /\ forwarded[1].account = NoAccount

\* C12: when the unauthenticated forward throws instead of producing a
\* response, the request ends with a ProviderError of status 502: it neither
\* resolves to a response nor ends without an error.
C12_UnauthenticatedFailure ==
    (candidates = <<>> /\ pc = "done" /\ response = None) =>
        /\ thrown = Some([name |-> "ProviderError", statusCode |-> 502])
        /\ clientResponse = None
        /\ forwarded = <<>>

C12_Witness ==
    /\ candidates = <<>> /\ pc = "done" /\ response = None
    /\ upstreamCalls = <<NoAccount>>
    /\ thrown # None

\* C13: every upstream call of an attempt with an account carries exactly one
\* credential header, a Bearer authorization or an x-api-key and never both;
\* this includes api_key accounts, whose token is the api key itself.
C13_OneCredential ==
    \A i \in DOMAIN upstreamCalls :
        upstreamCalls[i] # NoAccount =>
            (upstreamHeaders[i].authorization # None)
                # (upstreamHeaders[i].xApiKey # None)

C13_Witness ==
    \E i, j \in DOMAIN upstreamCalls :
        /\ upstreamCalls[i] \in ApiKeyAccounts
        /\ getValidAccessToken(upstreamCalls[i]) = AccountApiKey(upstreamCalls[i])
        /\ upstreamHeaders[i].xApiKey = AccountApiKey(upstreamCalls[i])
        /\ upstreamHeaders[i].authorization = None
        /\ upstreamCalls[j] \in Accounts \ ApiKeyAccounts
        /\ upstreamHeaders[j].authorization = AccountAccessToken(upstreamCalls[j])
        /\ upstreamHeaders[j].xApiKey = None

C16_ClassifierOnlyEnqueues ==
    [][attempts' # attempts =>
          /\ store' = store
          /\ Len(queue') >= Len(queue)
          /\ SubSeq(queue', 1, Len(queue)) = queue
          /\ \A i \in (Len(queue) + 1)..Len(queue') :
                 queue'[i].account = Last(attempts').account]_vars

\* A rate-limited response was classified: mark, usage and meta are queued
\* and the account's row is still untouched.
C16_Witness ==
    /\ attempts # <<>> /\ RateLimitedWithReset
    /\ CountOps(LastAccount, "markAccountRateLimited") = 1
    /\ CountOps(LastAccount, "updateAccountUsage") = 1
    /\ CountOps(LastAccount, "updateAccountRateLimitMeta") = 1
    /\ store[LastAccount].rate_limit_reset_at = None
    /\ store[LastAccount].request_count = 0
    /\ store[LastAccount].rate_limit_status = NoHeader

\* The attempt of the request that an account's writes belong to.
AttemptOf(a) == CHOOSE k \in DOMAIN candidates : candidates[k] = a
MarkBeforeMeta ==
    \A i, j \in DOMAIN queue :
        (/\ queue[i].op = "markAccountRateLimited"
         /\ queue[j].op = "updateAccountRateLimitMeta"
         /\ queue[i].account = queue[j].account) => i < j

C15_SingleFlightRefresh ==
    /\ Cardinality(refreshInFlight) <= 1
    /\ \A c \in Callers :
          callers[c].pc = "waiting" => callers[c].flight \in refreshInFlight
    /\ \A c, d \in Callers :
          (callers[c].flight # 0 /\ callers[c].flight = callers[d].flight
             /\ callers[c].pc # "waiting") =>
                /\ callers[d].pc = callers[c].pc
                /\ callers[d].token = callers[c].token
    /\ \A c \in Callers :
          (callers[c].pc = "done" /\ callers[c].flight # 0) =>
              callers[c].token = Some(callers[c].flight)
    /\ refreshCalls <= Cardinality({c \in Callers : callers[c].flight # 0})

\* The token expired, every caller asked while the one refresh was running,
\* and all of them received the token of refresh call 1.
C15_Witness ==
    /\ refreshCalls = 1 /\ refreshInFlight = {}
    /\ tokenRow = [access_token |-> 1, expired |-> FALSE]
    /\ \A c \in Callers :
          callers[c] = [pc |-> "done", flight |-> 1, token |-> Some(1)]

\* C18 as stated: no two rows of the accounts table bear the same name.
C18_AsStated ==
    \A i, j \in DOMAIN accounts :
        accounts[i].name = accounts[j].name => i = j

\* C19: a row created as an oauth account has an access token and an expiry
\* and no api key; a row created as an api_key account has an api key and no
\* access token, refresh token or expiry.
C19_CredentialInvariant ==
    \A i \in DOMAIN accounts :
        LET row == accounts[i]
        IN  /\ row.authType = "oauth" =>
                  /\ row.access_token # None
                  /\ row.expires_at # None
                  /\ row.api_key = None
            /\ row.authType = "api_key" =>
                  /\ row.api_key # None
                  /\ row.access_token = None
                  /\ row.refresh_token = None
                  /\ row.expires_at = None

\* One flow ended in an oauth row and another in an api_key row.
C19_Witness ==
    \E i, j \in DOMAIN accounts :
        /\ accounts[i].authType = "oauth"
        /\ accounts[i].access_token = Some("access-token")
        /\ accounts[i].refresh_token = Some("refresh-token")
        /\ accounts[j].authType = "api_key"
        /\ accounts[j].api_key = Some("raw-key")

\* C20 as stated: every row whose base_url is set is an api_key account.
C20_AsStated ==
    \A i \in DOMAIN accounts :
        accounts[i].base_url # None => accounts[i].authType = "api_key"

\* C21: every account row's tier is 1, 5 or 20, whatever accounts complete
\* created and whatever tier updates the classifier made; and every tier
\* update in the writer queue carries 1, 5 or 20.
C21_TierEnumerated ==
    /\ \A i \in DOMAIN accounts : accounts[i].account_tier \in {1, 5, 20}
    /\ \A i \in DOMAIN queue :
          queue[i].op = "updateAccountTier" =>
              /\ queue[i].tier # None
              /\ TheValue(queue[i].tier) \in {1, 5, 20}

\* An account created without a tier in the options has tier 1; another
\* account's tier was raised to 20 by the classifier, whose next update for it
\* (tier 5) is in the writer queue.
C21_Witness ==
    \E i, j \in DOMAIN accounts :
        /\ i < j
        /\ accounts[i].account_tier = 1
        /\ accounts[j].account_tier = 20
        /\ queue = <<TierOp(accounts[j].id, Some(5))>>

\* C22: a begin call for a name that an account bears at the time of the call
\* ends in the "already exists" error and hands out no session: no flow data
\* is returned and no session id is used up.
C22_BeginRejectsTakenName ==
    [][\A name \in FlowNames, mode \in Modes, baseUrl \in BaseUrls :
          (begin(name, mode, baseUrl)
             /\ \E i \in DOMAIN accounts : accounts[i].name = name) =>
                /\ flowResult' = Some([call |-> "begin", ok |-> FALSE,
                                        message |-> "already exists"])
                /\ flows' = flows
                /\ sessions' = sessions]_vars

\* An account exists and a begin call for its name has just been refused.
C22_Witness ==
    /\ accounts # <<>>
    /\ flowResult = Some([call |-> "begin", ok |-> FALSE,
                           message |-> "already exists"])
    /\ \A f \in flows : \A i \in DOMAIN accounts : accounts[i].name # f.name

\* C23: no begin call, refused or not, changes the accounts table or enqueues
\* a write; the session it hands out lives only in the flow data returned to
\* the caller.
C23_BeginWritesNothing ==
    [][\A name \in FlowNames, mode \in Modes, baseUrl \in BaseUrls :
          begin(name, mode, baseUrl) =>
              /\ accounts' = accounts
              /\ queue' = queue
              /\ store' = store]_vars

\* With one account in the table, a begin call for another name has just
\* returned its flow data; the table still holds that one account.
C23_Witness ==
    /\ Len(accounts) = 1
    /\ flowResult = Some([call |-> "begin", ok |-> TRUE, message |-> ""])
    /\ \E f \in flows : f.name # accounts[1].name /\ f.sessionId = sessions

\* C24 as stated: whenever complete inserts a row, the row bears the name
\* that was given to begin for the flow being completed.
C24_AsStated ==
    [][Len(accounts') > Len(accounts) =>
          \E f \in flows \ flows' : Last(accounts').name = f.name]_vars

\* C25: a removal request is sent only by a confirm whose typed confirmation
\* equals the name of the account the dialog was opened for, and carries
\* that name; a confirm with any other confirmation sends nothing, leaves the
\* dialog as it is and sets the mismatch error.
C25_RemovalNeedsExactName ==
    [][/\ removeCalls' # removeCalls =>
             /\ confirmDelete.show
             /\ confirmDelete.confirmInput = confirmDelete.accountName
             /\ removeCalls' = Append(removeCalls,
                   [name |-> confirmDelete.accountName,
                    confirm |-> confirmDelete.accountName])
       /\ (handleConfirmDelete
             /\ confirmDelete.confirmInput # confirmDelete.accountName) =>
             /\ removeCalls' = removeCalls
             /\ removeInFlight' = removeInFlight
             /\ confirmDelete' = confirmDelete
             /\ confirmDelete'.show
             /\ actionError' = Some(MismatchError)]_vars

\* "work" was removed after an exact confirmation; then, in the dialog for
\* "home", the user typed "work" and confirmed: the mismatch error is shown,
\* the dialog is open and no second request went out.
C25_Witness ==
    /\ removeCalls = <<[name |-> "work", confirm |-> "work"]>>
    /\ removeInFlight = {}
    /\ listed = {"home"}
    /\ confirmDelete = [show |-> TRUE, accountName |-> "home",
                         confirmInput |-> "work"]
    /\ actionError = Some(MismatchError)

\* C26: every tier update in the writer queue carries a tier that is set and
\* differs from the tier of the account it is for, and follows a usage
\* increment of that account (updateAccountMetadata ran for it, with a
\* provider that extracts tiers); the step that enqueues a tier update leaves
\* the attempts, their results and the response handed to the client as they
\* were, and the result recorded for an attempt is the one processProxyResponse
\* computes from the response alone.
C26_TierUpdateOnlyOnChange ==
    [][/\ \A i \in DOMAIN queue' :
             queue'[i].op = "updateAccountTier" =>
                /\ queue'[i].tier # None
                /\ queue'[i].tier # Some(AccountTier(queue'[i].account))
                /\ hasExtractTierInfo
                /\ \E j \in 1..(i - 1) : queue'[j] = UsageOp(queue'[i].account)
       /\ (Len(queue') > Len(queue)
             /\ Last(queue').op = "updateAccountTier") =>
                UNCHANGED <<pc, attempts, failoverAttempts, response, forwarded,
                            clientResponse, thrown>>
       /\ (Len(attempts') > Len(attempts)
             /\ Last(attempts').result \in {"failover", "success"}) =>
                Last(attempts').result =
                   IF processProxyResponse(TheValue(response'),
                                           Last(attempts').account).failover
                   THEN "failover" ELSE "success"]_vars

\* The first account failed over and the second succeeded; the response has
\* been returned to the client; the first account's extraction has since
\* enqueued a changed tier while the second account's is still running.
C26_Witness ==
    /\ Succeeded /\ Len(attempts) = 2
    /\ candidates[2] \in tierPending
    /\ candidates[1] \notin tierPending
    /\ Last(queue).op = "updateAccountTier"
    /\ Last(queue).account = candidates[1]
    /\ Last(queue).tier # Some(AccountTier(candidates[1]))

\* C27: whenever complete fails - no OAuth provider, the token exchange
\* throws, the api key cannot be created, or the api-key branch is reached
\* with a custom base URL - the accounts table after the call is the table
\* before it.
C27_FailedCompleteInsertsNothing ==
    [][(/\ flowResult' # None
        /\ ~TheValue(flowResult').ok
        /\ \E opts \in CompleteOptions, flowData \in flows, out \in Outcomes :
              complete(opts, flowData, out)) =>
           /\ accounts' = accounts
           /\ TheValue(flowResult').message \in
                 {"provider not found", "exchange failed",
                  "custom base URL", "api key creation failed"}]_vars

\* One account exists; a second flow got as far as creating its api key, which
\* failed: the table still holds the one account.
C27_Witness ==
    /\ flowResult = Some([call |-> "complete", ok |-> FALSE,
                           message |-> "api key creation failed"])
    /\ Len(accounts) = 1
    /\ flows # {}

\* C28: a complete that creates an account creates an api_key account exactly
\* when the flow's mode is console or the exchange returned no refresh token,
\* and an oauth account otherwise; every oauth account in the table has a
\* non-empty refresh token and is not unusable under the balancer's rule.
C28_AuthTypeByModeAndRefreshToken ==
    [][/\ Len(accounts') > Len(accounts) =>
             \A opts \in CompleteOptions, flowData \in flows, out \in Outcomes :
                complete(opts, flowData, out) =>
                   /\ Last(accounts').authType \in {"api_key", "oauth"}
                   /\ Last(accounts').authType = "api_key" <=>
                         (flowData.mode = "console"
                            \/ out.tokens.refreshToken = "")
       /\ \A i \in DOMAIN accounts' :
             accounts'[i].authType = "oauth" =>
                /\ ~EmptyToken(accounts'[i].refresh_token)
                /\ ~Unusable(accounts'[i])]_vars

\* Two accounts were created: the first flow was a max-mode flow whose
\* exchange returned a refresh token, and the account is an oauth account
\* holding it; the second flow ended in an api_key account without one.
C28_Witness ==
    /\ Len(accounts) = 2
    /\ flows = {}
    /\ accounts[1].authType = "oauth"
    /\ accounts[1].refresh_token = Some("refresh-token")
    /\ accounts[2].authType = "api_key"
    /\ accounts[2].refresh_token = None
    /\ flowResult = Some([call |-> "complete", ok |-> TRUE, message |-> ""])

\* C29 as stated: a submit of the form with a base URL entered makes no OAuth
\* init call and, the name being given, takes the wizard to the api-key step;
\* from then on, until the wizard is cancelled or reset, the wizard makes no
\* OAuth completion call, so that the direct-account call is the only
\* account-creating call that can follow.
C29_AsStated ==
    [][/\ (handleAddAccount /\ newAccount.baseUrl # "") =>
             /\ initCalls' = initCalls
             /\ newAccount.name # "" => authStep' = "apikey"
       /\ skippedOAuth => completeCalls' = completeCalls]_vars

\* C30: every OAuth completion call is made by a mounted wizard in the code
\* step, with a non-empty authorization code and with the session that the
\* latest successful OAuth init of that wizard instance returned, never
\* with no session and never with a session an earlier instance obtained.
C30_CompletionUsesLatestSession ==
    [][completeCalls' # completeCalls =>
          /\ adding
          /\ authStep = "code"
          /\ completeCalls' = Append(completeCalls, Last(completeCalls'))
          /\ Last(completeCalls').code # ""
          /\ Last(completeCalls').sessionId # NoSession
          /\ Last(completeCalls').sessionId = lastInit
          /\ Last(completeCalls').instance = instance]_vars

\* A first wizard obtained session 1 and was cancelled; the second wizard
\* obtained session 2, its completion failed and was retried: both
\* completion calls carry session 2.
C30_Witness ==
    /\ instance = 2
    /\ Len(issued) = 2
    /\ initCalls[1].instance = 1
    /\ initCalls[2].instance = 2
    /\ Len(completeCalls) = 2
    /\ \A k \in 1..2 :
          /\ completeCalls[k].instance = 2
          /\ completeCalls[k].sessionId = 2
          /\ completeCalls[k].code = "code"
    /\ wizardInFlight = {[kind |-> "complete", k |-> 2, instance |-> 2]}
    /\ actionError = Some("request failed")

\* C31: whenever a wizard is on the form step, its sessionId, its
\* authorization code and its api key are empty: whatever flow went before
\* (one that succeeded, one that was cancelled) has left nothing behind.
C31_FormStepIsClean ==
    authStep = "form" =>
       /\ sessionId = NoSession
       /\ authCode = ""
       /\ apiKeyInput = ""

\* A wizard obtained a session and completed its flow with a code; the
\* wizard opened after it is on the form step.
C31_Witness ==
    /\ adding
    /\ instance = 2
    /\ authStep = "form"
    /\ Len(issued) = 1
    /\ completeCalls # <<>>
    /\ completeCalls[1].code = "code"
    /\ [kind |-> "complete", k |-> 1, instance |-> 1] \in onSuccessCalls
    /\ "work" \in listed

\* C32: when an OAuth completion call or a direct-account call fails, the
\* wizard is left as it was - same step, same entered values, same
\* sessionId, still mounted - and onSuccess is not called; onSuccess is
\* called only in the step in which such a call succeeded.
C32_FailureKeepsWizard ==
    [][/\ (\E req \in wizardInFlight \ wizardInFlight' :
              /\ req.kind \in {"complete", "direct"}
              /\ actionError' = Some("request failed")) =>
             /\ UNCHANGED <<adding, formVars>>
             /\ onSuccessCalls' = onSuccessCalls
             /\ listed' = listed
       /\ onSuccessCalls' # onSuccessCalls =>
             \E req \in wizardInFlight \ wizardInFlight' :
                /\ req.kind \in {"complete", "direct"}
                /\ onSuccessCalls' = onSuccessCalls \cup {req}
                /\ actionError' = None
                /\ listed' # {} /\ listed \subseteq listed']_vars

\* The completion call of a mounted wizard failed: the wizard is still on
\* the code step with its code and its session, and the error is shown.
C32_Witness ==
    /\ adding
    /\ authStep = "code"
    /\ authCode = "code"
    /\ sessionId = 1
    /\ Len(completeCalls) = 1
    /\ completeCalls[1].instance = instance
    /\ wizardInFlight = {}
    /\ onSuccessCalls = {}
    /\ actionError = Some("request failed")

\* C35 as stated: a toggle issues resume exactly when the account is paused
\* and pause otherwise, and every toggle whose call succeeds inverts the
\* account's paused flag, so that two toggles restore it, also when the
\* second is issued before the list was reloaded after the first.
C35_AsStated ==
    [][/\ pauseCalls' # pauseCalls =>
             Last(pauseCalls') =
                IF serverAccount.paused THEN "resume" ELSE "pause"
       /\ \A k \in DOMAIN pauseTasks :
             (pauseTasks[k].at = "call" /\ pauseTasks'[k].at = "reload") =>
                serverAccount'.paused = ~serverAccount.paused]_vars

\* The calls handleSaveEdit has made for save k, in the order made.
CallsOf(k) == SelectSeq(editCalls, LAMBDA c : c.save = k)
\* The calls its updates ask for, in the order of its if statements.
WantedCalls(updates) ==
    SelectSeq(SubSeq(SaveSteps, 1, 4), LAMBDA step : Wanted(updates, step))

\* C33: the calls of a save are the calls its updates ask for, in the order
\* rename, tier, pause/resume, rate-limit override, up to the first that
\* failed; a failing call or reload changes nothing on the server (what
\* earlier calls applied stays applied), leaves the dialog open or closed as
\* it was, clears loading and sets an error, and no call follows it; and a
\* save closes the dialog only when its reload succeeded after all its calls.
C33_SaveIsSequential ==
    [][/\ \A k \in DOMAIN saveTasks' :
             /\ Len(CallsOf(k)') <= Len(WantedCalls(saveTasks'[k].updates))
             /\ \A i \in 1..Len(CallsOf(k)') :
                   CallsOf(k)'[i].call = WantedCalls(saveTasks'[k].updates)[i]
       /\ \A k \in DOMAIN saveTasks :
             /\ (saveTasks[k].at # "failed" /\ saveTasks'[k].at = "failed") =>
                   /\ serverAccount' = serverAccount
                   /\ editDialog'.isOpen = editDialog.isOpen
                   /\ ~editDialog'.isLoading
                   /\ actionError' # None
             /\ saveTasks[k].at = "failed" =>
                   /\ saveTasks'[k].at = "failed"
                   /\ CallsOf(k)' = CallsOf(k)
       /\ (saveTasks' # saveTasks /\ editDialog.isOpen /\ ~editDialog'.isOpen) =>
             \E k \in DOMAIN saveTasks :
                /\ saveTasks[k].at = "reload"
                /\ saveTasks'[k].at = "done"
                /\ Len(CallsOf(k)) = Len(WantedCalls(saveTasks[k].updates))
                /\ loadedAccount' = ListedAccount(serverAccount)]_vars

\* A save with a new name and a new tier: the rename succeeded, the tier
\* call failed.  The account bears the new name and the old tier, no further
\* call was made, and the dialog is open, not loading, with the error shown.
C33_Witness ==
    /\ Len(saveTasks) = 1
    /\ saveTasks[1].at = "failed"
    /\ saveTasks[1].updates.name = Some(NameB)
    /\ saveTasks[1].updates.tier = Some(5)
    /\ saveTasks[1].updates.paused = Some(TRUE)
    /\ editCalls = <<[save |-> 1, call |-> "rename"],
                     [save |-> 1, call |-> "tier"]>>
    /\ serverAccount.name = NameB
    /\ serverAccount.tier = 1
    /\ ~serverAccount.paused
    /\ editDialog.isOpen
    /\ ~editDialog.isLoading
    /\ actionError # None

\* C34: onSave is called only with a form that passed validation and with
\* a non-empty update set; a name in it is trimmed, non-empty, at most 100
\* characters long and differs from the account's; a tier or paused flag in
\* it differs from the account's; a rate-limit override in it is enabled
\* with customLimit in 1..100000 and resetWindowMinutes in 1..1440.
C34_OnSaveOnlyValidChanges ==
    [][Len(saveTasks') > Len(saveTasks) =>
          LET u == Last(saveTasks').updates
              acct == TheValue(editDialog.account)
          IN  /\ editDialog.isOpen
              /\ trim(formData.name) # <<>>
              /\ Len(trim(formData.name)) <= 100
              /\ u # NoUpdates
              /\ u.name # None =>
                    /\ TheValue(u.name) = trim(TheValue(u.name))
                    /\ TheValue(u.name) # <<>>
                    /\ Len(TheValue(u.name)) <= 100
                    /\ TheValue(u.name) # acct.name
              /\ u.tier # None => TheValue(u.tier) # acct.tier
              /\ u.paused # None => TheValue(u.paused) # acct.paused
              /\ u.rateLimitOverride # None =>
                    /\ TheValue(u.rateLimitOverride).enabled
                    /\ TheValue(u.rateLimitOverride).customLimit \in 1..100000
                    /\ TheValue(u.rateLimitOverride).resetWindowMinutes
                          \in 1..1440]_vars

\* onSave was called with a trimmed new name, a new tier and an override
\* within its ranges; the form held the name with blanks around it.
C34_Witness ==
    /\ Len(saveTasks) = 1
    /\ saveTasks[1].at = "rename"
    /\ formData.name = <<" ">> \o NameB \o <<" ">>
    /\ saveTasks[1].updates =
          [name |-> Some(NameB), tier |-> Some(5), paused |-> None,
           rateLimitOverride |->
              Some([enabled |-> TRUE, customLimit |-> DefaultCustomLimit,
                    resetWindowMinutes |-> DefaultResetWindow])]
    /\ editDialog.isLoading

TypeOK ==
    /\ requestMeta \in [id : RequestIds]
    /\ candidates \in CandidateLists
    /\ pc \in {"idle", "select", "unauthenticated", "unauthenticated_response",
               "attempt", "token", "request", "next", "done"}
    /\ failoverAttempts \in 0..NumAccounts
    /\ response \in Option(Responses)
    /\ tierPending \subseteq Accounts
    /\ clientResponse \in Option(Responses)
    /\ Len(upstreamHeaders) = Len(upstreamCalls)
====
